---------------------------- MODULE Spec2Model ----------------------------
(***************************************************************************)
(* Navigation Guardian of the JustUI extension.                            *)
(*                                                                         *)
(* Two JavaScript worlds share one window and one message queue:           *)
(*   - the page-world interceptor (src/scripts/injected-script.js), which  *)
(*     overrides window.open / location.assign / location.replace /        *)
(*     location.href and asks for permission with NAV_GUARDIAN_CHECK;      *)
(*   - the content script (src/scripts/content.js), which answers with     *)
(*     NAV_GUARDIAN_RESPONSE, shows the confirmation modal and keeps the   *)
(*     navigation statistics in chrome.storage.local.                      *)
(*                                                                         *)
(* One macrotask of the event loop is one action; promise continuations    *)
(* (microtasks) run inside the action that settles the promise.            *)
(***************************************************************************)
EXTENDS Integers, Sequences, FiniteSets, TLC

(***************************************************************************)
(* Bounds of the model.                                                    *)
(***************************************************************************)
\* calls of overridden primitives that go to the permission check
MaxCalls == 2
\* confirmation modals ever created on the page
MaxModals == 2
\* messages waiting in the window's message queue
MaxQueue == 1
\* responses posted by others than the content script
MaxForged == 2
\* checks arriving at the content script
MaxChecks == 3
\* message ids a posted message can carry
MaxIds == 2
\* clock advances
MaxTicks == 1
\* entries of recentWindowOpens
MaxOpens == 4
\* failures of addEventListener / postMessage
MaxFailures == 2
MaxNameLen == 4
MaxAdds == 2
MaxRegisters == 3

(***************************************************************************)
(* CONFIG of injected-script.js.                                           *)
(***************************************************************************)
MAX_PERMISSION_RETRIES == 1
CLICK_WINDOW_MS == 1000
WINDOW_OPEN_TRACKING_WINDOW_MS == 60000
POP_UNDER_THRESHOLD_SCORE == 4
\* weights of isPopUnderBehavior and the count above which opens are too frequent
SCORE_CLICK_TRIGGERED == 3
SCORE_POP_UNDER_URL == 4
SCORE_BLANK_TARGET == 2
SCORE_TOO_FREQUENT == 2
TOO_FREQUENT_COUNT == 3
CLICK_LISTENER_THRESHOLD == 6
IS_POP_UNDER_SCORE == 8
SHOULD_BLOCK_SCORE == 6

\* Date.now() when the page loads: far from the initial lastDocumentClick = 0
StartTime == 100000

(***************************************************************************)
(* Strings are sequences of one-character strings, so that startsWith,     *)
(* endsWith and slice are computed as String.prototype computes them.      *)
(***************************************************************************)
startsWith(s, p) == Len(s) >= Len(p) /\ SubSeq(s, 1, Len(p)) = p

endsWith(s, p) == Len(s) >= Len(p) /\ SubSeq(s, Len(s) - Len(p) + 1, Len(s)) = p

slice(s, n) == SubSeq(s, n + 1, Len(s))

PageHost == <<"p", ".", "c">>
TrustedHost == <<"e", ".", "c">>
TrustedSub == <<"s", ".", "e", ".", "c">>
OtherHost == <<"x", ".", "c">>

\* window.location of the protected page
PageLocation == [scheme |-> "https", host |-> PageHost]

(***************************************************************************)
(* URLs handed to the navigation primitives.  kind "empty" is a missing or *)
(* empty argument, "special" a javascript:/mailto:/tel:/data:/blob:/about: *)
(* or #fragment target, "url" anything new URL(url, location.href) parses  *)
(* (scheme and host are those of the resolved URL).  malicious is the      *)
(* verdict of MaliciousPatternDetector.isUrlMalicious on the text.         *)
(***************************************************************************)
Url(k, s, h, m) == [kind |-> k, scheme |-> s, host |-> h, malicious |-> m]

UrlEmpty == Url("empty", "", <<>>, FALSE)
UrlSpecial == Url("special", "", <<>>, FALSE)
UrlSame == Url("url", "https", PageHost, FALSE)
UrlSameHttp == Url("url", "http", PageHost, FALSE)
UrlCross == Url("url", "https", OtherHost, FALSE)
UrlCrossAd == Url("url", "https", OtherHost, TRUE)
UrlTrusted == Url("url", "https", TrustedSub, FALSE)

\* targets of the page's calls of the navigation primitives
Urls == {UrlSpecial, UrlSame, UrlSameHttp, UrlCross, UrlCrossAd}

\* cross-origin targets: the calls with them go to the permission check
CheckedUrls == {UrlCross, UrlCrossAd}

\* targets of links, forms and posted checks, as the content script tells them apart
LinkUrls == {UrlSame, UrlCross, UrlTrusted}

\* second argument of window.open: "_blank", or "none" when it is omitted
Names == {"_blank", "none"}


(***************************************************************************)
(* Pure helpers of the content script.                                     *)
(***************************************************************************)
domainMatches(domain, pattern) ==
  IF startsWith(pattern, <<"*", ".">>)
  THEN LET baseDomain == slice(pattern, 2)
       IN domain = baseDomain \/ endsWith(domain, <<".">> \o baseDomain)
  ELSE \/ domain = pattern
       \/ endsWith(domain, <<".">> \o pattern)

\* whitelist.some(w => domainMatches(domain, w))
whitelistSome(wl, domain) == \E i \in 1..Len(wl) : domainMatches(domain, wl[i])

(***************************************************************************)
(* isDomainWhitelisted with its one-entry cache: the result and the cache  *)
(* it leaves.  cache.result is "null", "true" or "false".                  *)
(***************************************************************************)
NullCache == [domain |-> <<>>, result |-> "null"]

\* a matcher that knows no subdomains
domainMatchesExact(domain, pattern) ==
  IF domain = <<>> \/ pattern = <<>>
  THEN FALSE
  ELSE domain = pattern

\* utils/domainMatch.js and url-utils: domainMatches
domainMatches_utils(domain, pattern) ==
  IF domain = <<>> \/ pattern = <<>>
  THEN FALSE
  ELSE IF domain = pattern
  THEN TRUE
  ELSE IF startsWith(pattern, <<"*", ".">>)
  THEN LET baseDomain == slice(pattern, 2)
       IN domain = baseDomain \/ endsWith(domain, <<".">> \o baseDomain)
  ELSE endsWith(domain, <<".">> \o pattern)

\* a cache that is not keyed by the domain
isDomainWhitelistedAnyDomain(cache, wl, domain) ==
  IF cache.result # "null"
  THEN [result |-> (cache.result = "true"), cache |-> cache]
  ELSE LET r == whitelistSome(wl, domain)
       IN [result |-> r,
           cache |-> [domain |-> domain, result |-> IF r THEN "true" ELSE "false"]]

isDomainWhitelisted(cache, wl, domain) ==
  IF cache.domain = domain /\ cache.result # "null"
  THEN [result |-> (cache.result = "true"), cache |-> cache]
  ELSE LET r == whitelistSome(wl, domain)
       IN [result |-> r,
           cache |-> [domain |-> domain, result |-> IF r THEN "true" ELSE "false"]]

\* content.js isCrossOrigin: compares hostnames only
isCrossOrigin_content(url) ==
  IF url.kind # "url" THEN FALSE ELSE url.host # PageLocation.host

\* content.js isNavigationTrusted: result and cache left behind
isNavigationTrusted(cache, wl, url) ==
  IF url.kind # "url"
  THEN [result |-> FALSE, cache |-> cache]
  ELSE isDomainWhitelisted(cache, wl, url.host)

invalidateWhitelistCache == NullCache

(***************************************************************************)
(* Pure helpers of the injected script.                                    *)
(***************************************************************************)
\* injected-script.js isCrossOrigin: compares origins (scheme and host)
isCrossOrigin_injected(url) ==
  IF url.kind # "url"
  THEN FALSE
  ELSE <<url.scheme, url.host>> # <<PageLocation.scheme, PageLocation.host>>

isUrlMalicious(url) == url.malicious

\* a risk assessment that looks at the primitive only
assessNavigationRiskByType(navType, url) == navType = "window.open"

assessNavigationRisk(navType, url) ==
  IF navType = "window.open" THEN TRUE ELSE isUrlMalicious(url)

\* recentWindowOpens after the push and the filter of isPopUnderBehavior
trackWindowOpen(opens, t) ==
  SelectSeq(Append(opens, t), LAMBDA x : t - x < WINDOW_OPEN_TRACKING_WINDOW_MS)

\* a score whose frequency signal reaches the threshold on its own
popUnderScoreFrequencyAlone(url, name, t, lastClick, opens) ==
  LET isClickTriggered == t - lastClick < CLICK_WINDOW_MS
      hasPopUnderURL == isUrlMalicious(url)
      isBlankTarget == name = "_blank" \/ name = ""
      tooFrequent == Len(trackWindowOpen(opens, t)) > TOO_FREQUENT_COUNT
  IN (IF isClickTriggered THEN SCORE_CLICK_TRIGGERED ELSE 0)
     + (IF hasPopUnderURL THEN SCORE_POP_UNDER_URL ELSE 0)
     + (IF isBlankTarget THEN SCORE_BLANK_TARGET ELSE 0)
     + (IF tooFrequent THEN POP_UNDER_THRESHOLD_SCORE ELSE 0)

\* a score that takes the absence of a recent click for the suspicious case
popUnderScoreNoClick(url, name, t, lastClick, opens) ==
  LET isClickTriggered == t - lastClick >= CLICK_WINDOW_MS
      hasPopUnderURL == isUrlMalicious(url)
      isBlankTarget == name = "_blank" \/ name = ""
      tooFrequent == Len(trackWindowOpen(opens, t)) > TOO_FREQUENT_COUNT
  IN (IF isClickTriggered THEN SCORE_CLICK_TRIGGERED ELSE 0)
     + (IF hasPopUnderURL THEN SCORE_POP_UNDER_URL ELSE 0)
     + (IF isBlankTarget THEN SCORE_BLANK_TARGET ELSE 0)
     + (IF tooFrequent THEN SCORE_TOO_FREQUENT ELSE 0)

popUnderScore(url, name, t, lastClick, opens) ==
  LET isClickTriggered == t - lastClick < CLICK_WINDOW_MS
      hasPopUnderURL == isUrlMalicious(url)
      isBlankTarget == name = "_blank" \/ name = ""
      tooFrequent == Len(trackWindowOpen(opens, t)) > TOO_FREQUENT_COUNT
  IN (IF isClickTriggered THEN SCORE_CLICK_TRIGGERED ELSE 0)
     + (IF hasPopUnderURL THEN SCORE_POP_UNDER_URL ELSE 0)
     + (IF isBlankTarget THEN SCORE_BLANK_TARGET ELSE 0)
     + (IF tooFrequent THEN SCORE_TOO_FREQUENT ELSE 0)

isPopUnderBehavior(url, name, t, lastClick, opens) ==
  LET score == popUnderScore(url, name, t, lastClick, opens)
  IN [isPopUnder |-> score >= POP_UNDER_THRESHOLD_SCORE, score |-> score]



(***************************************************************************)
(* State.                                                                  *)
(***************************************************************************)
VARIABLES
  \* ---- page world (injected-script.js)
  now,                     \* Date.now()
  ticks,                   \* clock advances so far
  lastDocumentClick,
  recentWindowOpens,
  calls,                   \* one record per call that went to the permission check
  lastCall,                \* the latest call of an overridden primitive and its way
  nextMessageId,           \* generateMessageId: the next unused id
  failures,                \* addEventListener / postMessage failures so far
  \* ---- the window's message queue, read by both worlds
  msgQueue,
  forged,                  \* responses posted by others than the content script
  checksPosted,            \* checks posted by others than the interceptor
  ignoredForeign,          \* kinds of message from another source that met a waiting listener
  \* ---- content script (content.js)
  navigationGuardEnabled,
  whitelist,
  whitelistCache,          \* cachedWhitelistDomain, cachedWhitelistResult
  navigationStats,
  settingsLoaded,          \* the callback of the initial storage.get has run
  pendingNavigationModals,
  modals,                  \* one record per modal created by showNavigationModal
  \* ---- chrome.storage.local and the background script
  storage,
  storageEvents,           \* storageChanged messages on their way to the content script
  \* ---- shared modules (utils/, scripts/modules/)
  matchDomain,             \* domainMatches: the domain argument
  matchPattern,            \* domainMatches: the pattern argument
  matchResult,             \* what each version of domainMatches returned
  listeners,               \* the calls the original addEventListener got
  lastAdd,                 \* the latest call of the overridden addEventListener
  addCount,                \* calls of the overridden addEventListener so far
  scriptContent,           \* the script under analysis, by the signatures it matches
  scriptAnalysis,          \* what analyzeScriptContent returned for it
  modules,                 \* CleanupRegistry.modules, in insertion order
  moduleArray,             \* cleanupAll: the sorted entries
  cleanupPromises,         \* cleanupAll: one promise per entry of moduleArray
  cleanupResults,          \* what cleanupAll returned
  cleanupPhase,            \* cleanupAll: "idle", "running" or "returned"
  cleanupCalls,            \* how often cleanup() of each module was invoked
  registerCount,           \* calls of register so far
  elr,                     \* the EventListenerRegistry, with the DOM it acts on
  elrCall,                 \* the latest registry operation and its argument
  debounce,                \* debouncedStorageSet: its timeouts map and the calls so far
  persistedEntries,        \* permissionCacheV1.entries in storage
  permissionCache,         \* PermissionCache.cache: its keys, once synced
  operationConfig,         \* FallbackStrategyManager.operationConfig
  fallbackCache,           \* FallbackStrategyManager.cache, by cache key
  executed,                \* the latest execute() and how its promise settled
  analyzer,                \* the ScriptAnalyzer and the MutationObservers it created
  storedWhitelist,         \* background.js: the whitelist in chrome.storage.local
  updates,                 \* the updateWhitelist requests and how far each has got
  storageOps               \* the storage operations issued and not yet served

pageVars ==
  <<now, ticks, lastDocumentClick, recentWindowOpens, calls, lastCall, nextMessageId,
    failures>>

queueVars == <<msgQueue, forged, checksPosted, ignoredForeign>>

contentVars ==
  <<navigationGuardEnabled, whitelist, whitelistCache, navigationStats, settingsLoaded,
    pendingNavigationModals, modals>>

storageVars == <<storage, storageEvents>>

matchVars == <<matchDomain, matchPattern, matchResult>>

listenerVars == <<listeners, lastAdd, addCount>>

scriptVars == <<scriptContent, scriptAnalysis>>

registryVars ==
  <<modules, moduleArray, cleanupPromises, cleanupResults, cleanupPhase, cleanupCalls,
    registerCount>>

eventVars == <<elr, elrCall>>

debounceVars == <<debounce>>

cacheVars == <<persistedEntries, permissionCache>>

fallbackVars == <<operationConfig, fallbackCache, executed>>

analyzerVars == <<analyzer>>

backgroundVars == <<storedWhitelist, updates, storageOps>>

resourceVars == <<eventVars, debounceVars, cacheVars, fallbackVars, analyzerVars, backgroundVars>>

moduleVars == <<matchVars, listenerVars, scriptVars, registryVars, resourceVars>>

mainVars == <<pageVars, queueVars, contentVars, storageVars>>

vars == <<mainVars, moduleVars>>

NoCall == [navType |-> "none", url |-> UrlEmpty, route |-> "none"]

ZeroStats == [blockedCount |-> 0, allowedCount |-> 0]

\* the whitelist found in chrome.storage.local when the page loads
StoredWhitelist == <<TrustedHost>>

\* navigationStats found in chrome.storage.local when the page loads
StoredStats == [blockedCount |-> 2, allowedCount |-> 1]

\* the state when both scripts have run, with f failures already spent
\* no call of domainMatches was made
NoMatchResult == [done |-> FALSE, content |-> FALSE, utils |-> FALSE]

\* a function listener whose source text scores `score`, or an object with
\* handleEvent
Listener(kind, score) == [kind |-> kind, score |-> score]

Registration(target, type, listener, options) ==
  [target |-> target, type |-> type, listener |-> listener, options |-> options]

NoAdd ==
  [call |-> Registration("none", "none", Listener("none", 0), "none"),
   outcome |-> "none"]

ListenersIdle ==
  /\ listeners = <<>>
  /\ lastAdd = NoAdd
  /\ addCount = 0

\* a script is known by the signatures its text matches: indices into
\* popUnderSignatures and into behaviorPatterns
Script(p, b) == [popUnder |-> p, behavior |-> b]

\* the analysis object analyzeScriptContent starts from
NewAnalysis ==
  [riskScore |-> 0, threats |-> <<>>, isPopUnder |-> FALSE, shouldBlock |-> FALSE,
   returned |-> FALSE]

ScriptsIdle ==
  /\ scriptContent = Script({}, {})
  /\ scriptAnalysis = NewAnalysis

\* names under which modules are registered
ModuleNames == {"m1", "m2", "m3"}

\* new CleanupRegistry()
RegistryIdle ==
  /\ modules = <<>>
  /\ moduleArray = <<>>
  /\ cleanupPromises = <<>>
  /\ cleanupResults = <<>>
  /\ cleanupPhase = "idle"
  /\ cleanupCalls = [n \in ModuleNames |-> 0]
  /\ registerCount = 0

(***************************************************************************)
(* EventListenerRegistry (EventListenerRegistry.js) on top of              *)
(* CleanableModule (ICleanable.js): the state after the constructors.      *)
(***************************************************************************)
ListenerModules == {"modA"}

TrackedModules == ListenerModules \cup {"unknown"}

ZeroListenerStats == [totalRegistered |-> 0, totalRemoved |-> 0, activeCount |-> 0]

\* dom: the (target, handler) pairs the targets hold; removeCalls: the listener
\* ids whose removal called removeEventListener, in order; returned: what the
\* latest call returned; cleanupRemoved: totalRemoved of the latest cleanup()
NewEventListenerRegistry ==
  [listeners |-> <<>>,
   moduleListeners |-> [m \in TrackedModules |-> {}],
   listenerStats |-> ZeroListenerStats,
   cleanupTimer |-> TRUE,
   nextListenerId |-> 1,
   orphanedListeners |-> {},
   lifecyclePhase |-> "initializing",
   phaseChanges |-> {},
   dom |-> {},
   removeCalls |-> <<>>,
   returned |-> "none",
   cleanupRemoved |-> 0]

NoRegistryCall == [op |-> "none", id |-> 0]

EventsIdle ==
  /\ elr = NewEventListenerRegistry
  /\ elrCall = NoRegistryCall

\* debouncedStorageSet (chromeApiSafe.js) before any call: timeouts is the Map
\* in insertion order; calls holds, for each call, its key, its timer, the
\* promise it returned and whether its callback is awaiting safeStorageSet
DebounceIdle == debounce = [timeouts |-> <<>>, calls |-> <<>>]

\* a new PermissionCache and an empty snapshot in storage
CacheIdle ==
  /\ persistedEntries = {}
  /\ permissionCache = [synced |-> FALSE, keys |-> {}]

\* the operations a caller registers; "undefined" is the key that
\* strategyUsage[undefined] reads
OperationIds == {"op", "undefined"}

\* operationConfig.get(operationId) of an operation that was not registered
NoConfig == [registered |-> FALSE, priority |-> "medium", fallbackStrategies |-> <<>>]

NoExecute ==
  [operationId |-> "none", primary |-> "none", status |-> "none", value |-> "none"]

\* new FallbackStrategyManager(): no operation of the caller registered, an
\* empty cache
FallbackIdle ==
  /\ operationConfig = [id \in OperationIds |-> NoConfig]
  /\ fallbackCache = [id \in OperationIds |-> "none"]
  /\ executed = NoExecute

\* new ScriptAnalyzer(): scriptObserver is 0 for null, or the number of the
\* MutationObserver; connected holds the observers that are observing
AnalyzerIdle ==
  analyzer = [isActive |-> FALSE, scriptObserver |-> 0, blockedScriptsCount |-> 0,
              connected |-> {}, created |-> 0]

UpdateRequests == {1, 2}

NoUpdate == [pc |-> "none", domain |-> "", whitelistAction |-> "", result |-> <<>>,
             whitelist |-> <<>>]

\* the background script with no updateWhitelist request, over an empty
\* whitelist in storage
BackgroundIdle ==
  /\ storedWhitelist = <<>>
  /\ updates = [r \in UpdateRequests |-> NoUpdate]
  /\ storageOps = <<>>

\* the registry, the debouncer and the cache before any call
ResourcesIdle == EventsIdle /\ DebounceIdle /\ CacheIdle /\ FallbackIdle /\ AnalyzerIdle /\ BackgroundIdle

\* the shared modules before any call
ModulesIdle ==
  /\ matchDomain = <<>>
  /\ matchPattern = <<>>
  /\ matchResult = NoMatchResult
  /\ ListenersIdle
  /\ ScriptsIdle
  /\ RegistryIdle
  /\ ResourcesIdle

\* both scripts after their construction, over a storage that holds the
\* whitelist wl
InitStored(f, wl) ==
  /\ now = StartTime
  /\ ticks = 0
  /\ lastDocumentClick = 0
  /\ recentWindowOpens = <<>>
  /\ calls = <<>>
  /\ lastCall = NoCall
  /\ nextMessageId = 1
  /\ failures = f
  /\ msgQueue = <<>>
  /\ forged = 0
  /\ checksPosted = 0
  /\ ignoredForeign = {}
  /\ navigationGuardEnabled = TRUE
  /\ whitelist = <<>>
  /\ whitelistCache = NullCache
  /\ navigationStats = ZeroStats
  /\ settingsLoaded = FALSE
  /\ pendingNavigationModals = {}
  /\ modals = <<>>
  /\ \E g \in BOOLEAN :
       storage = [navigationStats |-> StoredStats, whitelist |-> wl,
                  navigationGuardEnabled |-> g]
  /\ storageEvents = <<>>

InitMain(f) == InitStored(f, StoredWhitelist)

InitWith(f) == InitMain(f) /\ ModulesIdle

\* both scripts at rest, for the specifications of the shared modules
MainIdle == InitMain(MaxFailures) /\ storage.navigationGuardEnabled

Init == InitWith(0)

\* the page world alone: what storage holds plays no part
InitPage == Init /\ storage.navigationGuardEnabled

\* the page world where addEventListener and postMessage never throw
InitRouting == InitWith(MaxFailures) /\ storage.navigationGuardEnabled

(***************************************************************************)
(* Messages on the window.  source is "window" for a message posted by a   *)
(* script of this window and "other" for one posted from another frame.    *)
(***************************************************************************)
Message(t, id, a, u, src) ==
  [type |-> t, messageId |-> id, allowed |-> a, url |-> u, source |-> src]

CheckMsg(id, url) == Message("NAV_GUARDIAN_CHECK", id, FALSE, url, "window")

ResponseMsg(id, a) == Message("NAV_GUARDIAN_RESPONSE", id, a, UrlEmpty, "window")

ErrorMsg == Message("NAV_GUARDIAN_ERROR", 0, FALSE, UrlEmpty, "window")

MsgIds == 1..MaxIds

\* a message event was dispatched in this step: the queue lost its head
Dispatched ==
  /\ msgQueue # <<>>
  /\ Len(msgQueue') <= Len(msgQueue)
  /\ msgQueue' # msgQueue

(***************************************************************************)
(* Page world: the permission check.                                       *)
(*                                                                         *)
(* A call record is the closure of one safeCheckNavigationPermission call: *)
(* attempt, and of its current checkNavigationPermission: messageId,       *)
(* hasResolved, whether the message listener is registered (listening) and *)
(* the timeout timer set (timerArmed).  settledBy, result and origCalls    *)
(* record how the check ended and how often the .then of the override      *)
(* called the original primitive; rejected tells that the promise of       *)
(* safeCheckNavigationPermission was rejected, unhandled that the .catch   *)
(* of the override threw in its turn.                                      *)
(***************************************************************************)
NewCall(navType, url) ==
  [navType |-> navType, url |-> url, state |-> "new",
   attempt |-> 0, messageId |-> 0,
   hasResolved |-> FALSE, listening |-> FALSE, timerArmed |-> FALSE,
   settledBy |-> "none", result |-> FALSE, origCalls |-> 0, errors |-> <<>>,
   rejected |-> FALSE, unhandled |-> FALSE]

\* cleanup() of checkNavigationPermission: the timer is cleared, the listener removed
cleanup(c) == [c EXCEPT !.timerArmed = FALSE, !.listening = FALSE]

\* a settlement that leaves the timer and the listener in place
settleNoCleanup(c, by, allowed) ==
  [c EXCEPT !.hasResolved = TRUE,
            !.state = IF allowed THEN "allowed" ELSE "denied",
            !.settledBy = by,
            !.result = allowed,
            !.origCalls = IF allowed THEN @ + 1 ELSE @]

\* the check settles with `allowed`; the .then of the override calls the
\* original primitive when allowed
settle(c, by, allowed) ==
  [cleanup(c) EXCEPT !.hasResolved = TRUE,
                     !.state = IF allowed THEN "allowed" ELSE "denied",
                     !.settledBy = by,
                     !.result = allowed,
                     !.origCalls = IF allowed THEN @ + 1 ELSE @]

\* a timeout that falls to the risk default of the error path
timeoutVerdictRiskDefault(navType, url) == ~assessNavigationRisk(navType, url)

\* what the timeout callback of checkNavigationPermission resolves the check to
timeoutVerdict(navType, url) == FALSE

\* the executor of checkNavigationPermission for one attempt; fail tells
\* whether addEventListener ("listener") or postMessage ("post") throws
checkNavigationPermission(c, id, fail) ==
  IF fail = "none"
  THEN [call |-> [c EXCEPT !.messageId = id, !.hasResolved = FALSE,
                           !.listening = TRUE, !.timerArmed = TRUE,
                           !.state = "waiting"],
        post |-> <<CheckMsg(id, c.url)>>,
        rejected |-> FALSE]
  ELSE [call |-> [cleanup(c) EXCEPT !.messageId = id, !.hasResolved = TRUE,
                                    !.errors = Append(@, fail)],
        post |-> <<>>,
        rejected |-> TRUE]

\* what the postMessage of reportPermissionError does: it returns, or it
\* throws in the catch block of safeCheckNavigationPermission and then returns
\* or throws again in the .catch of the override
ReportOutcomes == {"returns", "throws once", "throws twice"}

\* the promise of safeCheckNavigationPermission is rejected and the .catch of
\* the override runs: it calls reportPermissionError and then, in the
\* location.href setter only, the original setter
catchHandler(c, reportThrows) ==
  [cleanup(c) EXCEPT !.hasResolved = TRUE,
                     !.state = "rejected",
                     !.settledBy = "rejected",
                     !.rejected = TRUE,
                     !.unhandled = reportThrows,
                     !.origCalls =
                       IF ~reportThrows /\ c.navType = "location.href" THEN @ + 1 ELSE @]

\* the catch block of the last attempt: the risk default, unless
\* reportPermissionError throws out of it
fallback(c, report) ==
  LET isHighRisk == assessNavigationRisk(c.navType, c.url)
  IN IF report = "returns"
     THEN [call |-> settle(c, "error", ~isHighRisk), post |-> <<ErrorMsg>>]
     ELSE [call |-> catchHandler(c, report = "throws twice"),
           post |-> IF report = "throws once" THEN <<ErrorMsg>> ELSE <<>>]

\* a loop that falls back to the risk default at the first rejection
safeCheckNavigationPermissionNoRetry(c, id, fail, report) ==
  LET r == checkNavigationPermission(c, id, fail)
  IN IF ~r.rejected
     THEN [call |-> r.call, post |-> r.post]
     ELSE fallback(r.call, report)

\* one iteration of the loop of safeCheckNavigationPermission
safeCheckNavigationPermission(c, id, fail, report) ==
  LET r == checkNavigationPermission(c, id, fail)
  IN IF ~r.rejected
     THEN [call |-> r.call, post |-> r.post]
     ELSE IF c.attempt = MAX_PERMISSION_RETRIES
          THEN fallback(r.call, report)
          ELSE [call |-> [r.call EXCEPT !.state = "retryDelay"], post |-> <<>>]

Fails == IF failures < MaxFailures THEN {"none", "listener", "post"} ELSE {"none"}

\* reportPermissionError is called when the last attempt is rejected
Reports(c, fail) ==
  IF fail # "none" /\ c.attempt = MAX_PERMISSION_RETRIES
  THEN ReportOutcomes
  ELSE {"returns"}

\* a window.open override without the pop-under heuristic
windowOpenRouteNoHeuristic(url, analysis) ==
  IF ~isCrossOrigin_injected(url) THEN "passthrough" ELSE "check"

\* which way the window.open override takes
windowOpenRoute(url, analysis) ==
  IF analysis.isPopUnder THEN "block"
  ELSE IF ~isCrossOrigin_injected(url) THEN "passthrough"
  ELSE "check"

\* which way the overrides of location.assign, location.replace and the
\* location.href setter take
locationRoute(url) ==
  IF ~isCrossOrigin_injected(url) THEN "passthrough" ELSE "check"

\* the pop-under score of a call made now reaches the threshold
reachesThreshold(url, name) ==
  popUnderScore(url, name, now, lastDocumentClick, recentWindowOpens)
    >= POP_UNDER_THRESHOLD_SCORE

\* room for a permission check and its message
CanCheck == Len(calls) < MaxCalls /\ Len(msgQueue) < MaxQueue

\* the override goes the way `route`: it returns at once ("block"), calls
\* the original primitive at once ("passthrough") or starts the permission
\* check ("check")
takeRoute(navType, url, route) ==
  /\ lastCall' = [navType |-> navType, url |-> url, route |-> route]
  /\ IF route = "check"
     THEN /\ CanCheck
          /\ \E fail \in Fails :
             \E report \in Reports(NewCall(navType, url), fail) :
               LET r == safeCheckNavigationPermission(NewCall(navType, url),
                                                      nextMessageId, fail, report)
               IN /\ calls' = Append(calls, r.call)
                  /\ msgQueue' = msgQueue \o r.post
                  /\ failures' = IF fail = "none" THEN failures ELSE failures + 1
          /\ nextMessageId' = nextMessageId + 1
     ELSE UNCHANGED <<calls, msgQueue, failures, nextMessageId>>

WindowOpen(url, name) ==
  /\ Len(recentWindowOpens) < MaxOpens
  /\ LET analysis == isPopUnderBehavior(url, name, now, lastDocumentClick, recentWindowOpens)
     IN takeRoute("window.open", url, windowOpenRoute(url, analysis))
  /\ recentWindowOpens' = trackWindowOpen(recentWindowOpens, now)
  /\ UNCHANGED <<moduleVars, now, ticks, lastDocumentClick, forged, checksPosted, ignoredForeign, contentVars,
                 storageVars>>

locationOverride(navType, url) ==
  /\ takeRoute(navType, url, locationRoute(url))
  /\ UNCHANGED <<moduleVars, now, ticks, lastDocumentClick, recentWindowOpens, forged, checksPosted,
                 ignoredForeign, contentVars, storageVars>>

LocationAssign(url) == locationOverride("location.assign", url)

LocationReplace(url) == locationOverride("location.replace", url)

LocationHrefSet(url) == locationOverride("location.href", url)

\* the retry delay of safeCheckNavigationPermission has passed: next attempt
RetryDelayFires(i) ==
  /\ calls[i].state = "retryDelay"
  /\ Len(msgQueue) < MaxQueue
  /\ \E fail \in Fails :
     \E report \in Reports([calls[i] EXCEPT !.attempt = @ + 1], fail) :
       LET r == safeCheckNavigationPermission([calls[i] EXCEPT !.attempt = @ + 1],
                                              nextMessageId, fail, report)
       IN /\ calls' = [calls EXCEPT ![i] = r.call]
          /\ msgQueue' = msgQueue \o r.post
          /\ failures' = IF fail = "none" THEN failures ELSE failures + 1
  /\ nextMessageId' = nextMessageId + 1
  /\ UNCHANGED <<moduleVars, now, ticks, lastDocumentClick, recentWindowOpens, lastCall, forged,
                 checksPosted, ignoredForeign, contentVars, storageVars>>

\* the timer of checkNavigationPermission fires
PermissionTimeout(i) ==
  /\ calls[i].timerArmed
  /\ calls' = [calls EXCEPT ![i] =
       IF ~calls[i].hasResolved
       THEN settle(calls[i], "timeout", timeoutVerdict(calls[i].navType, calls[i].url))
       ELSE [calls[i] EXCEPT !.timerArmed = FALSE]]
  /\ UNCHANGED <<moduleVars, now, ticks, lastDocumentClick, recentWindowOpens, lastCall, nextMessageId,
                 failures, queueVars, contentVars, storageVars>>

\* a handleResponse that takes any response for its own
handleResponseAnyId(c, msg) ==
  IF ~c.listening \/ msg.source # "window" \/ c.hasResolved
  THEN c
  ELSE IF msg.type = "NAV_GUARDIAN_RESPONSE"
       THEN settle(c, "response", msg.allowed)
       ELSE c

\* handleResponse of one pending check on a message event
handleResponse(c, msg) ==
  IF ~c.listening \/ msg.source # "window" \/ c.hasResolved
  THEN c
  ELSE IF msg.type = "NAV_GUARDIAN_RESPONSE" /\ msg.messageId = c.messageId
       THEN settle(c, "response", msg.allowed)
       ELSE c

\* time passes
Tick(d) ==
  /\ ticks < MaxTicks
  /\ now' = now + d
  /\ ticks' = ticks + 1
  /\ UNCHANGED <<moduleVars, lastDocumentClick, recentWindowOpens, calls, lastCall, nextMessageId,
                 failures, queueVars, contentVars, storageVars>>

TickSteps == {CLICK_WINDOW_MS, WINDOW_OPEN_TRACKING_WINDOW_MS}

\* the capturing click listener the injected script puts on the document
DocumentClick ==
  /\ lastDocumentClick # now
  /\ lastDocumentClick' = now
  /\ UNCHANGED <<moduleVars, now, ticks, recentWindowOpens, calls, lastCall, nextMessageId, failures,
                 queueVars, contentVars, storageVars>>

\* one message event as the page world sees it: the handleResponse of each
\* pending check gets it
\* a NAV_GUARDIAN_RESPONSE from another source that carries the messageId of
\* a waiting check
foreignResponse(msg) ==
  IF /\ msg.source # "window"
     /\ msg.type = "NAV_GUARDIAN_RESPONSE"
     /\ \E i \in DOMAIN calls :
          calls[i].state = "waiting" /\ calls[i].messageId = msg.messageId
  THEN {"response"}
  ELSE {}

PageMessage ==
  /\ msgQueue # <<>>
  /\ calls' = [i \in DOMAIN calls |-> handleResponse(calls[i], Head(msgQueue))]
  /\ msgQueue' = Tail(msgQueue)
  /\ ignoredForeign' = ignoredForeign \cup foreignResponse(Head(msgQueue))
  /\ UNCHANGED <<moduleVars, now, ticks, lastDocumentClick, recentWindowOpens, lastCall, nextMessageId,
                 failures, forged, checksPosted, contentVars, storageVars>>

\* a NAV_GUARDIAN_RESPONSE is posted on the window, by the content script, a
\* page script or another frame
PagePostsResponse(id, a, src) ==
  /\ forged < MaxForged
  /\ Len(msgQueue) < MaxQueue
  /\ msgQueue' = Append(msgQueue, Message("NAV_GUARDIAN_RESPONSE", id, a, UrlEmpty, src))
  /\ forged' = forged + 1
  /\ UNCHANGED <<moduleVars, pageVars, checksPosted, ignoredForeign, contentVars, storageVars>>

\* a NAV_GUARDIAN_CHECK is posted on the window, by the interceptor, a page
\* script or another frame
PagePostsCheck(id, u, src) ==
  /\ checksPosted < MaxChecks
  /\ Len(msgQueue) < MaxQueue
  /\ msgQueue' = Append(msgQueue, Message("NAV_GUARDIAN_CHECK", id, FALSE, u, src))
  /\ checksPosted' = checksPosted + 1
  /\ UNCHANGED <<moduleVars, pageVars, forged, ignoredForeign, contentVars, storageVars>>

(***************************************************************************)
(* Content script: the confirmation modal.                                 *)
(*                                                                         *)
(* A modal record is the closure of one showNavigationModal call that      *)
(* built a modal: the callback cb, hasResponded, whether the overlay is in *)
(* the document (inDom), and whether the {once: true} click listeners of   *)
(* the two buttons are still registered.  first and late record what the   *)
(* user did: the first activation, and whether another one followed.       *)
(* calls, arg, incAllowed and incBlocked record what the handlers did: how *)
(* often and with what the callback was invoked, and the counter           *)
(* increments.  dup records that a check with the messageId of cb came     *)
(* while it was pending.                                                   *)
(***************************************************************************)
\* the callback handleNavigationMessage passes (kind "msg", with the
\* messageId) and the one handleLinkClick and handleFormSubmit pass
Callback(kind, id) == [kind |-> kind, id |-> id]

NewModal(cb) ==
  [cb |-> cb, inDom |-> TRUE, hasResponded |-> FALSE,
   allowArmed |-> TRUE, denyArmed |-> TRUE,
   first |-> "none", calls |-> 0, arg |-> FALSE,
   incAllowed |-> 0, incBlocked |-> 0, late |-> FALSE, dup |-> FALSE]

\* document.getElementById('justui-navigation-modal')
existingModal(ms) == \E i \in DOMAIN ms : ms[i].inDom

\* a showNavigationModal that does not look for an existing modal
showNavigationModalNoCheck(ms, cb) ==
  [modals |-> Append(ms, NewModal(cb)), shown |-> TRUE]

\* showNavigationModal up to the creation of the overlay
showNavigationModal(ms, cb) ==
  IF existingModal(ms)
  THEN [modals |-> ms, shown |-> FALSE]
  ELSE [modals |-> Append(ms, NewModal(cb)), shown |-> TRUE]

\* the guards of handleAllow, handleDeny and keydownHandler
handleAllowRuns(m) == ~m.hasResponded

\* a handleDeny without its hasResponded test
handleDenyRunsAlways(m) == TRUE

handleDenyRuns(m) == ~m.hasResponded

keydownHandlerRuns(m) == ~m.hasResponded

\* handlers that count every decision as allowed
incrementStatsAllowedOnly(stats, decision) ==
  [stats EXCEPT !.allowedCount = @ + 1]

\* navigationStats.allowedCount++ / navigationStats.blockedCount++
incrementStats(stats, decision) ==
  IF decision
  THEN [stats EXCEPT !.allowedCount = @ + 1]
  ELSE [stats EXCEPT !.blockedCount = @ + 1]

\* the user activates Allow or Enter (decision TRUE), Block or Escape (FALSE)
pressed(m, decision) ==
  [m EXCEPT !.first = IF @ = "none" THEN (IF decision THEN "allow" ELSE "deny") ELSE @,
            !.late = (m.first # "none")]

\* the body of handleAllow (decision TRUE) and handleDeny (decision FALSE)
\* after the hasResponded test, as it shows on the modal
activated(m, decision) ==
  [m EXCEPT !.hasResponded = TRUE, !.inDom = FALSE,
            !.calls = @ + 1, !.arg = decision,
            !.incAllowed = IF decision THEN @ + 1 ELSE @,
            !.incBlocked = IF decision THEN @ ELSE @ + 1]

\* an activation of modal i that the handlers let through: cleanup, the
\* counter, updateNavigationStats and the callback
respond(i, m, decision) ==
  /\ m.cb.kind = "msg" => Len(msgQueue) < MaxQueue
  /\ modals' = [modals EXCEPT ![i] = activated(m, decision)]
  /\ navigationStats' = incrementStats(navigationStats, decision)
  /\ storage' = [storage EXCEPT !.navigationStats = navigationStats']
  /\ storageEvents' = Append(storageEvents, navigationStats')
  /\ IF m.cb.kind = "msg"
     THEN /\ pendingNavigationModals' = pendingNavigationModals \ {m.cb.id}
          /\ msgQueue' = Append(msgQueue, ResponseMsg(m.cb.id, decision))
     ELSE UNCHANGED <<pendingNavigationModals, msgQueue>>

\* an activation the handlers return from at once
ignored(i, m) ==
  /\ modals' = [modals EXCEPT ![i] = m]
  /\ UNCHANGED <<navigationStats, storage, storageEvents, pendingNavigationModals,
                 msgQueue>>

modalFrame ==
  UNCHANGED <<moduleVars, now, ticks, recentWindowOpens, calls, lastCall, nextMessageId, failures,
              forged, checksPosted, ignoredForeign, navigationGuardEnabled, whitelist,
              whitelistCache, settingsLoaded>>

\* a click on the Allow button: its listener is registered once
ClickAllow(i) ==
  /\ modals[i].allowArmed
  /\ LET m == pressed([modals[i] EXCEPT !.allowArmed = FALSE], TRUE)
     IN IF handleAllowRuns(m) THEN respond(i, m, TRUE) ELSE ignored(i, m)
  /\ lastDocumentClick' = now
  /\ modalFrame

\* a click on the Block button: its listener is registered once
ClickDeny(i) ==
  /\ modals[i].denyArmed
  /\ LET m == pressed([modals[i] EXCEPT !.denyArmed = FALSE], FALSE)
     IN IF handleDenyRuns(m) THEN respond(i, m, FALSE) ELSE ignored(i, m)
  /\ lastDocumentClick' = now
  /\ modalFrame

\* keydown Enter on the overlay
KeyEnter(i) ==
  /\ LET m == pressed(modals[i], TRUE)
     IN IF keydownHandlerRuns(m) /\ handleAllowRuns(m)
        THEN respond(i, m, TRUE) ELSE ignored(i, m)
  /\ UNCHANGED lastDocumentClick
  /\ modalFrame

\* keydown Escape on the overlay
KeyEscape(i) ==
  /\ LET m == pressed(modals[i], FALSE)
     IN IF keydownHandlerRuns(m) /\ handleDenyRuns(m)
        THEN respond(i, m, FALSE) ELSE ignored(i, m)
  /\ UNCHANGED lastDocumentClick
  /\ modalFrame

(***************************************************************************)
(* Content script: link clicks, form submissions and the checks of the     *)
(* injected script.                                                        *)
(***************************************************************************)
\* navigationGuardEnabled && isCrossOrigin(url) && !isNavigationTrusted(url),
\* evaluated left to right; cache is the whitelist cache afterwards
guardTest(url) ==
  IF ~navigationGuardEnabled \/ ~isCrossOrigin_content(url)
  THEN [guarded |-> FALSE, cache |-> whitelistCache]
  ELSE LET t == isNavigationTrusted(whitelistCache, whitelist, url)
       IN [guarded |-> ~t.result, cache |-> t.cache]

\* room for the modal a show-request would build
CanShow == existingModal(modals) \/ Len(modals) < MaxModals

\* the call showNavigationModal(url, cb)
requestModal(cb) ==
  /\ CanShow
  /\ modals' = showNavigationModal(modals, cb).modals

\* handleLinkClick and handleFormSubmit: the same tests, then the modal
handleLinkClick(url, kind) ==
  LET g == guardTest(url)
  IN /\ whitelistCache' = g.cache
     /\ IF g.guarded
        THEN requestModal(Callback(kind, 0))
        ELSE UNCHANGED modals

\* a click on a link: the capturing click listeners of both worlds run
LinkClick(url) ==
  /\ handleLinkClick(url, "link")
  /\ lastDocumentClick' = now
  /\ UNCHANGED <<moduleVars, now, ticks, recentWindowOpens, calls, lastCall, nextMessageId, failures,
                 queueVars, navigationGuardEnabled, whitelist, navigationStats,
                 settingsLoaded, pendingNavigationModals, storageVars>>

\* a form is submitted
FormSubmit(url) ==
  /\ handleLinkClick(url, "form")
  /\ UNCHANGED <<moduleVars, pageVars, queueVars, navigationGuardEnabled, whitelist, navigationStats,
                 settingsLoaded, pendingNavigationModals, storageVars>>

\* a handler that takes no check for a duplicate
isDuplicateCheckNever(pending, id) == FALSE

\* pendingNavigationModals.has(messageId)
isDuplicateCheck(pending, id) == id \in pending

\* a check came for a messageId that is pending: its modal, if it has one,
\* remembers
noteDuplicate(ms, id) ==
  [i \in DOMAIN ms |->
     IF ms[i].cb = Callback("msg", id) /\ ~ms[i].hasResponded
     THEN [ms[i] EXCEPT !.dup = TRUE] ELSE ms[i]]

\* handleNavigationMessage on the message msg; rest is the queue behind it
\* a handler that does not look at event.source
handleNavigationMessageAnySource(msg, rest) ==
  IF msg.type # "NAV_GUARDIAN_CHECK"
  THEN /\ msgQueue' = rest
       /\ UNCHANGED <<whitelistCache, pendingNavigationModals, modals>>
  ELSE IF isDuplicateCheck(pendingNavigationModals, msg.messageId)
  THEN /\ msgQueue' = rest
       /\ modals' = noteDuplicate(modals, msg.messageId)
       /\ UNCHANGED <<whitelistCache, pendingNavigationModals>>
  ELSE LET g == guardTest(msg.url)
       IN /\ whitelistCache' = g.cache
          /\ IF g.guarded
             THEN /\ pendingNavigationModals' = pendingNavigationModals \cup {msg.messageId}
                  /\ requestModal(Callback("msg", msg.messageId))
                  /\ msgQueue' = rest
             ELSE /\ msgQueue' = Append(rest, ResponseMsg(msg.messageId, TRUE))
                  /\ UNCHANGED <<pendingNavigationModals, modals>>

\* handleNavigationMessage of content.js on one message event
handleNavigationMessage(msg, rest) ==
  IF msg.source # "window" \/ msg.type # "NAV_GUARDIAN_CHECK"
  THEN /\ msgQueue' = rest
       /\ UNCHANGED <<whitelistCache, pendingNavigationModals, modals>>
  ELSE IF isDuplicateCheck(pendingNavigationModals, msg.messageId)
  THEN /\ msgQueue' = rest
       /\ modals' = noteDuplicate(modals, msg.messageId)
       /\ UNCHANGED <<whitelistCache, pendingNavigationModals>>
  ELSE LET g == guardTest(msg.url)
       IN /\ whitelistCache' = g.cache
          /\ IF g.guarded
             THEN /\ pendingNavigationModals' = pendingNavigationModals \cup {msg.messageId}
                  /\ requestModal(Callback("msg", msg.messageId))
                  /\ msgQueue' = rest
             ELSE /\ msgQueue' = Append(rest, ResponseMsg(msg.messageId, TRUE))
                  /\ UNCHANGED <<pendingNavigationModals, modals>>

\* one message event: the handleResponse of each pending check gets it, and
\* handleNavigationMessage of the content script
\* a NAV_GUARDIAN_CHECK from another source that would get a modal had it
\* come from the window
foreignCheck(msg) ==
  IF /\ msg.source # "window"
     /\ msg.type = "NAV_GUARDIAN_CHECK"
     /\ ~isDuplicateCheck(pendingNavigationModals, msg.messageId)
     /\ guardTest(msg.url).guarded
     /\ ~existingModal(modals)
  THEN {"check"}
  ELSE {}

DispatchMessage ==
  /\ msgQueue # <<>>
  /\ calls' = [i \in DOMAIN calls |-> handleResponse(calls[i], Head(msgQueue))]
  /\ handleNavigationMessage(Head(msgQueue), Tail(msgQueue))
  /\ ignoredForeign' = ignoredForeign \cup foreignResponse(Head(msgQueue))
                                       \cup foreignCheck(Head(msgQueue))
  /\ UNCHANGED <<moduleVars, now, ticks, lastDocumentClick, recentWindowOpens, lastCall, nextMessageId,
                 failures, forged, checksPosted, navigationGuardEnabled, whitelist,
                 navigationStats, settingsLoaded, storageVars>>

(***************************************************************************)
(* Content script: settings.  The storage.get of initialize() is served    *)
(* before any storage.set this page issues, so its callback gets the       *)
(* counters storage had when the page loaded.                              *)
(***************************************************************************)
\* the callback of chrome.storage.local.get in initialize()
SettingsLoaded ==
  /\ ~settingsLoaded
  /\ settingsLoaded' = TRUE
  /\ whitelist' = storage.whitelist
  /\ navigationGuardEnabled' = storage.navigationGuardEnabled
  /\ navigationStats' = StoredStats
  /\ whitelistCache' = isDomainWhitelisted(whitelistCache, whitelist', PageHost).cache
  /\ UNCHANGED <<moduleVars, pageVars, queueVars, pendingNavigationModals, modals, storageVars>>

\* chrome.runtime.onMessage with action "storageChanged": the background
\* script forwards each change of storage to every tab, this one included
StorageChanged ==
  /\ storageEvents # <<>>
  /\ navigationStats' = Head(storageEvents)
  /\ storageEvents' = Tail(storageEvents)
  /\ UNCHANGED <<moduleVars, pageVars, queueVars, navigationGuardEnabled, whitelist, whitelistCache,
                 settingsLoaded, pendingNavigationModals, modals, storage>>

\* the whitelists the user can build in the popup
Whitelists == {<<>>, <<PageHost>>, <<TrustedHost>>}

\* executeRules(): isDomainWhitelisted(currentDomain), for the log and for
\* the test that follows
executeRules(cache, wl) == isDomainWhitelisted(cache, wl, PageHost).cache

\* chrome.runtime.onMessage with action "executeRules"
ExecuteRulesRequest ==
  /\ whitelistCache' = executeRules(whitelistCache, whitelist)
  /\ UNCHANGED <<moduleVars, pageVars, queueVars, navigationGuardEnabled, whitelist,
                 navigationStats, settingsLoaded, pendingNavigationModals, modals,
                 storageVars>>

\* the whitelist in storage changes and the background script forwards the
\* change: "storageChanged" with changes.whitelist
WhitelistChanged ==
  \E wl \in Whitelists :
    /\ wl # storage.whitelist
    /\ storage' = [storage EXCEPT !.whitelist = wl]
    /\ whitelist' = wl
    /\ whitelistCache' = executeRules(invalidateWhitelistCache, wl)
    /\ UNCHANGED <<moduleVars, pageVars, queueVars, navigationGuardEnabled, navigationStats,
                   settingsLoaded, pendingNavigationModals, modals, storageEvents>>

\* the popup has stored a whitelist and tells the tab: "whitelistUpdated"
WhitelistUpdated ==
  \E wl \in Whitelists :
    /\ storage' = [storage EXCEPT !.whitelist = wl]
    /\ whitelist' = wl
    /\ whitelistCache' = executeRules(invalidateWhitelistCache, wl)
    /\ UNCHANGED <<moduleVars, pageVars, queueVars, navigationGuardEnabled, navigationStats,
                   settingsLoaded, pendingNavigationModals, modals, storageEvents>>

(***************************************************************************)
(* Steps and specifications.                                               *)
(***************************************************************************)
CallStep ==
  \/ \E u \in Urls, n \in Names : WindowOpen(u, n)
  \/ \E u \in Urls : LocationAssign(u)
  \/ \E u \in Urls : LocationReplace(u)
  \/ \E u \in Urls : LocationHrefSet(u)

\* the calls that go to the permission check
CheckedCallStep ==
  \/ WindowOpen(UrlCross, "none")
  \/ \E u \in CheckedUrls : LocationAssign(u)
  \/ \E u \in CheckedUrls : LocationReplace(u)
  \/ \E u \in CheckedUrls : LocationHrefSet(u)

TimerStep ==
  \/ \E i \in DOMAIN calls : RetryDelayFires(i)
  \/ \E i \in DOMAIN calls : PermissionTimeout(i)

TimeStep ==
  \/ \E d \in TickSteps : Tick(d)
  \/ DocumentClick

ResponseStep ==
  \E id \in MsgIds, a \in BOOLEAN, src \in {"window", "other"} :
    PagePostsResponse(id, a, src)

CheckStep ==
  \/ \E id \in MsgIds, u \in LinkUrls : PagePostsCheck(id, u, "window")
  \/ \E id \in MsgIds : PagePostsCheck(id, UrlCross, "other")

ClickStep ==
  \/ \E i \in DOMAIN modals : ClickAllow(i)
  \/ \E i \in DOMAIN modals : ClickDeny(i)

KeyStep ==
  \/ \E i \in DOMAIN modals : KeyEnter(i)
  \/ \E i \in DOMAIN modals : KeyEscape(i)

LinkStep ==
  \/ \E u \in LinkUrls : LinkClick(u)
  \/ \E u \in LinkUrls : FormSubmit(u)

SettingsStep ==
  \/ SettingsLoaded
  \/ StorageChanged

\* the overrides deciding which way a call goes, with clicks and the clock
\* a call that goes to the permission check, with no failure of the primitives
GuardedCallStep == LocationAssign(UrlCross)

\* a protocol message posted from another frame
ForeignStep ==
  \E id \in MsgIds :
    \/ \E a \in BOOLEAN : PagePostsResponse(id, a, "other")
    \/ PagePostsCheck(id, UrlCross, "other")

NextProtocol ==
  \/ GuardedCallStep
  \/ ForeignStep
  \/ DispatchMessage
  \/ ClickStep

\* both worlds on one window, with messages from the window and from others
SpecProtocol == InitRouting /\ [][NextProtocol]_vars

(***************************************************************************)
(* domainMatches as a pure function: the arguments are drawn from all      *)
(* strings of up to MaxNameLen characters over a label character, the dot  *)
(* and the star, and one call applies both versions to them.               *)
(***************************************************************************)
NameAlphabet == {"a", ".", "*"}

Names_upTo(n) == UNION {[1..k -> NameAlphabet] : k \in 0..n}

InitDomainMatch ==
  /\ MainIdle
  /\ matchDomain \in Names_upTo(MaxNameLen)
  /\ matchPattern \in Names_upTo(MaxNameLen)
  /\ matchResult = NoMatchResult
  /\ ListenersIdle
  /\ ScriptsIdle
  /\ RegistryIdle
  /\ ResourcesIdle

DomainMatchesCall ==
  /\ ~matchResult.done
  /\ matchResult' = [done |-> TRUE,
                     content |-> domainMatches(matchDomain, matchPattern),
                     utils |-> domainMatches_utils(matchDomain, matchPattern)]
  /\ UNCHANGED <<mainVars, resourceVars, matchDomain, matchPattern, listenerVars, scriptVars,
                 registryVars>>

NextDomainMatch == DomainMatchesCall

SpecDomainMatch == InitDomainMatch /\ [][NextDomainMatch]_vars

(***************************************************************************)
(* The override of EventTarget.prototype.addEventListener.  The source     *)
(* text of a function listener is known by the score                       *)
(* MaliciousPatternDetector.analyze gives it.                              *)
(***************************************************************************)
\* MaliciousPatternDetector.analyze(listenerStr, threshold)
analyze(listener, threshold) ==
  [riskScore |-> listener.score, isMalicious |-> listener.score >= threshold]

\* an override that lets unload listeners through
addEventListenerKeepsUnload(type, listener) ==
  IF /\ type = "click"
     /\ listener.kind = "function"
     /\ analyze(listener, CLICK_LISTENER_THRESHOLD).isMalicious
  THEN "dropped"
  ELSE "passed"

\* what the overridden addEventListener does with a registration
addEventListener(type, listener) ==
  IF type = "unload"
  THEN "dropped"
  ELSE IF /\ type = "click"
          /\ listener.kind = "function"
          /\ analyze(listener, CLICK_LISTENER_THRESHOLD).isMalicious
  THEN "dropped"
  ELSE "passed"

AddEventListener(target, type, listener, options) ==
  /\ addCount < MaxAdds
  /\ addCount' = addCount + 1
  /\ LET call == Registration(target, type, listener, options)
         outcome == addEventListener(type, listener)
     IN /\ lastAdd' = [call |-> call, outcome |-> outcome]
        /\ listeners' = IF outcome = "passed" THEN Append(listeners, call)
                                              ELSE listeners
  /\ UNCHANGED <<mainVars, resourceVars, matchVars, scriptVars, registryVars>>

ListenerTargets == {"document", "button"}
ListenerTypes == {"click", "unload", "message"}
ListenerScores ==
  {CLICK_LISTENER_THRESHOLD - 1, CLICK_LISTENER_THRESHOLD, CLICK_LISTENER_THRESHOLD + 1}
Listeners ==
  {Listener("function", n) : n \in ListenerScores} \cup {Listener("object", 0)}
ListenerOptions == {"none", "capture"}

NextListeners ==
  \E target \in ListenerTargets, type \in ListenerTypes, listener \in Listeners,
     options \in ListenerOptions :
    AddEventListener(target, type, listener, options)

InitListeners == MainIdle /\ ModulesIdle

SpecListeners == InitListeners /\ [][NextListeners]_vars

(***************************************************************************)
(* ScriptAnalyzer.analyzeScriptContent.                                    *)
(***************************************************************************)
\* the scores of popUnderSignatures and of behaviorPatterns, in their order
popUnderSignatures == <<10, 9, 8, 7, 6, 5, 4, 6, 5>>
behaviorPatterns == <<3, 2, 2, 3, 1>>

\* signatures.forEach from index k on: a matching signature adds its score
\* and pushes its threat
RECURSIVE forEachSignature(_, _, _, _)
forEachSignature(signatures, matched, k, a) ==
  IF k > Len(signatures)
  THEN a
  ELSE forEachSignature(signatures, matched, k + 1,
         IF k \in matched
         THEN [a EXCEPT !.riskScore = @ + signatures[k],
                        !.threats = Append(@, signatures[k])]
         ELSE a)

\* an analysis whose score stops at the pop-under threshold
analyzeScriptContentCapped(script) ==
  LET a1 == forEachSignature(popUnderSignatures, script.popUnder, 1, NewAnalysis)
      a2 == forEachSignature(behaviorPatterns, script.behavior, 1, a1)
      capped == IF a2.riskScore > IS_POP_UNDER_SCORE THEN IS_POP_UNDER_SCORE
                                                      ELSE a2.riskScore
  IN [a2 EXCEPT !.riskScore = capped,
                !.isPopUnder = capped >= IS_POP_UNDER_SCORE,
                !.shouldBlock = capped >= SHOULD_BLOCK_SCORE,
                !.returned = TRUE]

analyzeScriptContent(script) ==
  LET a1 == forEachSignature(popUnderSignatures, script.popUnder, 1, NewAnalysis)
      a2 == forEachSignature(behaviorPatterns, script.behavior, 1, a1)
  IN [a2 EXCEPT !.isPopUnder = a2.riskScore >= IS_POP_UNDER_SCORE,
                !.shouldBlock = a2.riskScore >= SHOULD_BLOCK_SCORE,
                !.returned = TRUE]

Scripts ==
  {Script(p, b) : p \in SUBSET DOMAIN popUnderSignatures,
                  b \in SUBSET DOMAIN behaviorPatterns}

InitScripts ==
  /\ MainIdle
  /\ matchDomain = <<>>
  /\ matchPattern = <<>>
  /\ matchResult = NoMatchResult
  /\ ListenersIdle
  /\ scriptContent \in Scripts
  /\ scriptAnalysis = NewAnalysis
  /\ RegistryIdle
  /\ ResourcesIdle

\* the analyzer is called on the script
AnalyzeScriptContent ==
  /\ ~scriptAnalysis.returned
  /\ scriptAnalysis' = analyzeScriptContent(scriptContent)
  /\ UNCHANGED <<mainVars, resourceVars, matchVars, listenerVars, scriptContent, registryVars>>

\* the analyzer is called on a script that matches what the last one matched
\* and one signature more
AnalyzeLargerScript ==
  /\ scriptAnalysis.returned
  /\ \E next \in
         {[scriptContent EXCEPT !.popUnder = @ \cup {k}] :
            k \in DOMAIN popUnderSignatures \ scriptContent.popUnder}
         \cup
         {[scriptContent EXCEPT !.behavior = @ \cup {k}] :
            k \in DOMAIN behaviorPatterns \ scriptContent.behavior} :
       /\ scriptContent' = next
       /\ scriptAnalysis' = analyzeScriptContent(next)
  /\ UNCHANGED <<mainVars, resourceVars, matchVars, listenerVars, registryVars>>

NextScripts == AnalyzeScriptContent \/ AnalyzeLargerScript

SpecScripts == InitScripts /\ [][NextScripts]_vars

(***************************************************************************)
(* CleanupRegistry.  A module is known by what its cleanup() does:         *)
(* "resolves" (returns, or returns a promise that fulfils in time),        *)
(* "rejects" (returns a promise that rejects in time), "throws" (throws    *)
(* synchronously), "hangs" (returns a promise that is not settled when the *)
(* timeout fires); "noCleanup" is an object without a cleanup method.      *)
(***************************************************************************)
Behaviours == {"resolves", "rejects", "throws", "hangs"}
Priorities == {"high", "normal", "low"}

Entry(name, priority, module) == [name |-> name, priority |-> priority, module |-> module]

isCleanable(module) == module # "noCleanup"

has(name) == \E i \in DOMAIN modules : modules[i].name = name

\* Map.set: a new key goes to the end, an existing key keeps its place
mapSet(entries, e) ==
  IF \E i \in DOMAIN entries : entries[i].name = e.name
  THEN [i \in DOMAIN entries |-> IF entries[i].name = e.name THEN e ELSE entries[i]]
  ELSE Append(entries, e)

\* register(module, name, priority)
Register(module, name, priority) ==
  /\ registerCount < MaxRegisters
  /\ registerCount' = registerCount + 1
  /\ modules' = IF isCleanable(module)
                THEN mapSet(modules, Entry(name, priority, module))
                ELSE modules
  /\ UNCHANGED <<mainVars, resourceVars, matchVars, listenerVars, scriptVars, moduleArray,
                 cleanupPromises, cleanupResults, cleanupPhase, cleanupCalls>>

\* unregister(name) of a registered name
Unregister(name) ==
  /\ has(name)
  /\ modules' = SelectSeq(modules, LAMBDA e : e.name # name)
  /\ UNCHANGED <<mainVars, resourceVars, matchVars, listenerVars, scriptVars, moduleArray,
                 cleanupPromises, cleanupResults, cleanupPhase, cleanupCalls,
                 registerCount>>

\* the stable sort of cleanupAll: high, then normal, then low
\* priorityOrder[priority] || 2
priorityRank(priority) ==
  CASE priority = "high" -> 3
    [] priority = "normal" -> 2
    [] priority = "low" -> 1
    [] OTHER -> 2

\* a sort that knows the three named priorities only
sortByPriorityNamed(entries) ==
  SelectSeq(entries, LAMBDA e : e.priority = "high")
    \o SelectSeq(entries, LAMBDA e : e.priority = "normal")
    \o SelectSeq(entries, LAMBDA e : e.priority = "low")

sortByPriority(entries) ==
  SelectSeq(entries, LAMBDA e : priorityRank(e.priority) = 3)
    \o SelectSeq(entries, LAMBDA e : priorityRank(e.priority) = 2)
    \o SelectSeq(entries, LAMBDA e : priorityRank(e.priority) = 1)

\* the promise the map callback returns for one entry: a synchronous throw
\* gives a promise already fulfilled with a failure result
\* a map callback that arms no timeout
cleanupPromiseNoTimeout(e) ==
  IF e.module = "throws"
  THEN [name |-> e.name, settled |-> TRUE, success |-> FALSE, timerArmed |-> FALSE,
        error |-> "thrown"]
  ELSE [name |-> e.name, settled |-> FALSE, success |-> FALSE, timerArmed |-> FALSE,
        error |-> "none"]

cleanupPromise(e) ==
  IF e.module = "throws"
  THEN [name |-> e.name, settled |-> TRUE, success |-> FALSE, timerArmed |-> FALSE,
        error |-> "thrown"]
  ELSE [name |-> e.name, settled |-> FALSE, success |-> FALSE, timerArmed |-> TRUE,
        error |-> "none"]

\* a map that a synchronous throw of cleanup() breaks off
RECURSIVE mapCleanupUntilThrow(_)
mapCleanupUntilThrow(entries) ==
  IF entries = <<>> \/ Head(entries).module = "throws"
  THEN <<>>
  ELSE <<cleanupPromise(Head(entries))>> \o mapCleanupUntilThrow(Tail(entries))

\* moduleArray.map: cleanup() of every entry is invoked, in order
mapCleanup(entries) == [i \in DOMAIN entries |-> cleanupPromise(entries[i])]

\* cleanupAll() up to its await
CleanupAll ==
  /\ cleanupPhase = "idle"
  /\ cleanupPhase' = "running"
  /\ moduleArray' = sortByPriority(modules)
  /\ cleanupPromises' = mapCleanup(moduleArray')
  /\ cleanupCalls' =
       [n \in ModuleNames |->
          IF \E i \in DOMAIN cleanupPromises' : cleanupPromises'[i].name = n
          THEN cleanupCalls[n] + 1
          ELSE cleanupCalls[n]]
  /\ UNCHANGED <<mainVars, resourceVars, matchVars, listenerVars, scriptVars, modules, cleanupResults,
                 registerCount>>

\* a race whose handlers leave the timer running
raceSettledTimerKept(p, behaviour) ==
  [p EXCEPT !.settled = TRUE,
            !.success = (behaviour = "resolves"),
            !.error = IF behaviour = "resolves" THEN "none" ELSE "rejected"]

\* .then / .catch of Promise.race when cleanup() settles first:
\* clearTimeout(timeoutId), then the result record
raceSettled(p, behaviour) ==
  [p EXCEPT !.settled = TRUE,
            !.success = (behaviour = "resolves"),
            !.error = IF behaviour = "resolves" THEN "none" ELSE "rejected",
            !.timerArmed = FALSE]

\* the promise of cleanup() settles before the timeout: .then or .catch of
\* the race runs and clears the timer
CleanupSettles(i) ==
  /\ cleanupPhase = "running"
  /\ ~cleanupPromises[i].settled
  /\ moduleArray[i].module \in {"resolves", "rejects"}
  /\ cleanupPromises' =
       [cleanupPromises EXCEPT ![i] = raceSettled(@, moduleArray[i].module)]
  /\ UNCHANGED <<mainVars, resourceVars, matchVars, listenerVars, scriptVars, modules, moduleArray,
                 cleanupResults, cleanupPhase, cleanupCalls, registerCount>>

\* the timeout fires first: the race rejects with 'Cleanup timeout'
CleanupTimeout(i) ==
  /\ cleanupPhase = "running"
  /\ ~cleanupPromises[i].settled
  /\ cleanupPromises[i].timerArmed
  /\ moduleArray[i].module = "hangs"
  /\ cleanupPromises' =
       [cleanupPromises EXCEPT ![i] = [@ EXCEPT !.settled = TRUE,
                                                !.success = FALSE,
                                                !.error = "Cleanup timeout",
                                                !.timerArmed = FALSE]]
  /\ UNCHANGED <<mainVars, resourceVars, matchVars, listenerVars, scriptVars, modules, moduleArray,
                 cleanupResults, cleanupPhase, cleanupCalls, registerCount>>

\* Promise.allSettled resolves: the results are extracted, the registry is
\* cleared and cleanupAll returns
CleanupAllReturns ==
  /\ cleanupPhase = "running"
  /\ \A i \in DOMAIN cleanupPromises : cleanupPromises[i].settled
  /\ cleanupResults' =
       [i \in DOMAIN cleanupPromises |->
          [name |-> cleanupPromises[i].name, success |-> cleanupPromises[i].success,
           error |-> cleanupPromises[i].error]]
  /\ modules' = <<>>
  /\ cleanupPhase' = "returned"
  /\ UNCHANGED <<mainVars, resourceVars, matchVars, listenerVars, scriptVars, moduleArray,
                 cleanupPromises, cleanupCalls, registerCount>>

NextRegistry ==
  \/ \E module \in Behaviours \cup {"noCleanup"}, name \in ModuleNames,
        priority \in Priorities :
       Register(module, name, priority)
  \/ \E name \in ModuleNames : Unregister(name)
  \/ CleanupAll
  \/ \E i \in DOMAIN cleanupPromises : CleanupSettles(i)
  \/ \E i \in DOMAIN cleanupPromises : CleanupTimeout(i)
  \/ CleanupAllReturns

InitRegistry == MainIdle /\ ModulesIdle

SpecRegistry == InitRegistry /\ [][NextRegistry]_vars

\* cleanupAll over modules of one priority, with timers that fire and
\* promises that settle
NextTermination ==
  \/ \E module \in Behaviours, name \in ModuleNames : Register(module, name, "normal")
  \/ CleanupAll
  \/ \E i \in DOMAIN cleanupPromises : CleanupSettles(i)
  \/ \E i \in DOMAIN cleanupPromises : CleanupTimeout(i)
  \/ CleanupAllReturns

SpecTermination ==
  /\ InitRegistry
  /\ [][NextTermination]_vars
  /\ WF_vars(\E i \in DOMAIN cleanupPromises : CleanupSettles(i))
  /\ WF_vars(\E i \in DOMAIN cleanupPromises : CleanupTimeout(i))
  /\ WF_vars(CleanupAllReturns)

\* priorities as register gets them: the three named ones and another string
AnyPriorities == Priorities \cup {"urgent"}

\* cleanupAll over modules of every priority
NextOrder ==
  \/ \E name \in ModuleNames, priority \in AnyPriorities :
       Register("resolves", name, priority)
  \/ \E name \in ModuleNames : Unregister(name)
  \/ CleanupAll
  \/ \E i \in DOMAIN cleanupPromises : CleanupSettles(i)
  \/ CleanupAllReturns

SpecOrder == InitRegistry /\ [][NextOrder]_vars

(***************************************************************************)
(* EventListenerRegistry (EventListenerRegistry.js), a CleanableModule     *)
(* (ICleanable.js).  The registry is the record elr; every method is an    *)
(* operator from the registry before the call to the registry after it.    *)
(* The targets are EventTargets: addEventListener keeps one listener per   *)
(* (target, handler) pair and removeEventListener does not throw, so the   *)
(* catch branch of removeListenerInfo is not taken.                        *)
(***************************************************************************)
MaxListeners == 3

priorityOrder == <<"critical", "high", "normal", "low">>

\* "detached" is an element node that is no longer connected to the document
Elements == {"window", "detached"}

Handlers == {"h1", "h2"}

\* "" stands for a field the metadata does not carry
ListenerPriorities == {"critical", "urgent", ""}

\* "broken" is a connected element whose removeEventListener throws
AllElements == Elements \cup {"broken"}

Categories == {"ui", "navigation"}

Metadata ==
  [moduleId : ListenerModules \cup {""}, priority : ListenerPriorities, category : {""}]

\* metadata that names a category as well
CategoryMetadata ==
  [moduleId : ListenerModules \cup {""}, priority : {""}, category : {"", "navigation"}]

listenerIds(entries) == [i \in DOMAIN entries |-> entries[i].id]

setLifecyclePhase(r, newPhase) ==
  [r EXCEPT
     !.lifecyclePhase = newPhase,
     !.phaseChanges =
       IF r.lifecyclePhase = newPhase THEN @ ELSE @ \cup {<<r.lifecyclePhase, newPhase>>}]

initialize(r) == setLifecyclePhase(r, "active")

\* CleanableModule.cleanup, the super.cleanup() of the registry
cleanup_module(r) ==
  setLifecyclePhase(setLifecyclePhase(r, "cleanup_pending"), "cleaned")

register_elr(r, element, handler, metadata) ==
  IF element = "null"
    THEN [r EXCEPT !.returned = "null"]
    ELSE
      LET moduleId == IF metadata.moduleId = "" THEN "unknown" ELSE metadata.moduleId
          listenerInfo ==
            [id |-> r.nextListenerId,
             element |-> element,
             handler |-> handler,
             moduleId |-> moduleId,
             priority |-> IF metadata.priority = "" THEN "normal" ELSE metadata.priority,
             category |-> IF metadata.category = "" THEN "ui" ELSE metadata.category,
             isActive |-> TRUE]
      IN  [r EXCEPT
             !.nextListenerId = @ + 1,
             !.dom = @ \cup {<<element, handler>>},
             !.listeners = Append(@, listenerInfo),
             !.moduleListeners = [@ EXCEPT ![moduleId] = @ \cup {listenerInfo.id}],
             !.listenerStats =
               [@ EXCEPT !.totalRegistered = @ + 1, !.activeCount = @ + 1],
             !.returned = "id"]

\* a removal that counts the listener as removed before removeEventListener
\* has returned
removeListenerInfoCountedFirst(r, listenerInfo) ==
  LET others(l) == l.id # listenerInfo.id
  IN  IF listenerInfo.isActive /\ listenerInfo.element = "broken"
        THEN [r EXCEPT
                !.listenerStats =
                  [@ EXCEPT
                     !.totalRemoved = @ + 1,
                     !.activeCount = IF @ - 1 > 0 THEN @ - 1 ELSE 0],
                !.orphanedListeners = @ \cup {listenerInfo.id},
                !.returned = "false"]
        ELSE [r EXCEPT
                !.dom =
                  IF listenerInfo.isActive
                    THEN @ \ {<<listenerInfo.element, listenerInfo.handler>>}
                    ELSE @,
                !.removeCalls =
                  IF listenerInfo.isActive THEN Append(@, listenerInfo.id) ELSE @,
                !.listeners = SelectSeq(@, others),
                !.moduleListeners =
                  [@ EXCEPT ![listenerInfo.moduleId] = @ \ {listenerInfo.id}],
                !.listenerStats =
                  [@ EXCEPT
                     !.totalRemoved = @ + 1,
                     !.activeCount = IF @ - 1 > 0 THEN @ - 1 ELSE 0],
                !.returned = "true"]

\* removeEventListener of a "broken" element throws before anything is
\* changed: the catch block marks the listener as orphaned
removeListenerInfo(r, listenerInfo) ==
  LET others(l) == l.id # listenerInfo.id
  IN  IF listenerInfo.isActive /\ listenerInfo.element = "broken"
        THEN [r EXCEPT
                !.orphanedListeners = @ \cup {listenerInfo.id},
                !.returned = "false"]
        ELSE [r EXCEPT
                !.dom =
                  IF listenerInfo.isActive
                    THEN @ \ {<<listenerInfo.element, listenerInfo.handler>>}
                    ELSE @,
                !.removeCalls =
                  IF listenerInfo.isActive THEN Append(@, listenerInfo.id) ELSE @,
                !.listeners = SelectSeq(@, others),
                !.moduleListeners =
                  [@ EXCEPT ![listenerInfo.moduleId] = @ \ {listenerInfo.id}],
                !.listenerStats =
                  [@ EXCEPT
                     !.totalRemoved = @ + 1,
                     !.activeCount = IF @ - 1 > 0 THEN @ - 1 ELSE 0],
                !.returned = "true"]

listenerHas(r, listenerId) ==
  \E i \in DOMAIN r.listeners : r.listeners[i].id = listenerId

\* this.listeners.get(listenerId), for an id the map has
listenerGet(r, listenerId) ==
  r.listeners[CHOOSE i \in DOMAIN r.listeners : r.listeners[i].id = listenerId]

\* remove without the lookup: whatever the id, a listener is taken off
removeUnguarded(r, listenerId) ==
  LET stale == [id |-> listenerId, element |-> "window", handler |-> "h1",
                moduleId |-> "unknown", priority |-> "normal", category |-> "ui",
                isActive |-> TRUE]
  IN  removeListenerInfo(
        r, IF listenerHas(r, listenerId) THEN listenerGet(r, listenerId) ELSE stale)

remove(r, listenerId) ==
  IF ~listenerHas(r, listenerId)
    THEN [r EXCEPT !.returned = "false"]
    ELSE removeListenerInfo(r, listenerGet(r, listenerId))

\* for (const listenerId of ids) { if (this.remove(listenerId)) count++ }
RECURSIVE removeEach(_, _)
removeEach(r, ids) ==
  IF ids = <<>>
    THEN [registry |-> r, count |-> 0]
    ELSE LET first == remove(r, Head(ids))
             rest == removeEach(first, Tail(ids))
         IN  [registry |-> rest.registry,
              count |-> rest.count + IF first.returned = "true" THEN 1 ELSE 0]

removeByModule(r, moduleId) ==
  LET ofModule(l) == l.id \in r.moduleListeners[moduleId]
  IN  removeEach(r, listenerIds(SelectSeq(r.listeners, ofModule))).registry

\* the ids of elementListeners.get(element) that the listeners map still
\* has: an id that cleanup() left behind in the WeakMap fails the
\* `listenerInfo &&` test and is skipped
removeByElement(r, element) ==
  LET onElement(l) == l.element = element
  IN  IF element = "null"
        THEN r
        ELSE removeEach(r, listenerIds(SelectSeq(r.listeners, onElement))).registry

removeByCategory(r, category) ==
  LET inCategory(l) == l.category = category
  IN  removeEach(r, listenerIds(SelectSeq(r.listeners, inCategory))).registry

\* for (const orphanedId of this.orphanedListeners): a tracked listener is
\* removed again, and the id leaves the set whether that worked or not
cleanupOrphanedListeners(r) ==
  LET orphaned(l) == l.id \in r.orphanedListeners
      retried == removeEach(r, listenerIds(SelectSeq(r.listeners, orphaned)))
  IN  [registry |-> [retried.registry EXCEPT !.orphanedListeners = {}],
       count |-> retried.count]

performPeriodicCleanup(r, isExtensionContextValid) ==
  LET disconnected(l) == l.element = "detached"
  IN  IF ~isExtensionContextValid
        THEN r
        ELSE cleanupOrphanedListeners(
               removeEach(r, listenerIds(SelectSeq(r.listeners, disconnected))).registry
             ).registry

\* for (const priority of priorityOrder) { collect the ids, remove each }
RECURSIVE removeByPriority(_, _)
removeByPriority(r, priorities) ==
  IF priorities = <<>>
    THEN [registry |-> r, count |-> 0]
    ELSE LET ofPriority(l) == l.priority = Head(priorities)
             first == removeEach(r, listenerIds(SelectSeq(r.listeners, ofPriority)))
             rest == removeByPriority(first.registry, Tail(priorities))
         IN  [registry |-> rest.registry, count |-> first.count + rest.count]

\* cleanup that stops after the listed priorities and clears the maps
cleanup_elrListedOnly(r) ==
  LET pending == [setLifecyclePhase(r, "cleanup_pending") EXCEPT !.cleanupTimer = FALSE]
      listed == removeByPriority(pending, priorityOrder)
  IN  cleanup_module(
        [listed.registry EXCEPT
           !.listeners = <<>>,
           !.moduleListeners = [m \in TrackedModules |-> {}],
           !.orphanedListeners = {},
           !.listenerStats = ZeroListenerStats,
           !.cleanupRemoved = listed.count])

cleanup_elr(r) ==
  LET pending == [setLifecyclePhase(r, "cleanup_pending") EXCEPT !.cleanupTimer = FALSE]
      listed == removeByPriority(pending, priorityOrder)
      remaining == removeEach(listed.registry, listenerIds(listed.registry.listeners))
  IN  cleanup_module(
        [remaining.registry EXCEPT
           !.listeners = <<>>,
           !.moduleListeners = [m \in TrackedModules |-> {}],
           !.orphanedListeners = {},
           !.listenerStats = ZeroListenerStats,
           !.cleanupRemoved = listed.count + remaining.count])

\* CleanupRegistry.cleanupModule: the phase is set, then cleanup() is called
cleanupModule(r) == cleanup_elr(setLifecyclePhase(r, "cleanup_pending"))

\* AutomaticCleanupEnforcer.attemptAutomaticCleanup: the phase is set, cleanup()
\* is called and returns, and the race it won marks the module as cleaned
attemptAutomaticCleanup(r) ==
  setLifecyclePhase(cleanup_elr(setLifecyclePhase(r, "cleanup_pending")), "cleaned")

outsideEvents ==
  <<mainVars, matchVars, listenerVars, scriptVars, registryVars, debounceVars, cacheVars,
    fallbackVars, analyzerVars, backgroundVars>>

RegisterListener ==
  \E element \in Elements \cup {"null"}, handler \in Handlers, metadata \in Metadata :
    /\ elr.nextListenerId <= MaxListeners
    /\ elr' = register_elr(elr, element, handler, metadata)
    /\ elrCall' = [op |-> "register", id |-> elr.nextListenerId]
    /\ UNCHANGED outsideEvents

RemoveListener ==
  \E listenerId \in 1..MaxListeners :
    /\ elr' = remove(elr, listenerId)
    /\ elrCall' = [op |-> "remove", id |-> listenerId]
    /\ UNCHANGED outsideEvents

RemoveByModule ==
  \E moduleId \in TrackedModules :
    /\ elr' = removeByModule(elr, moduleId)
    /\ elrCall' = [op |-> "removeByModule", id |-> 0]
    /\ UNCHANGED outsideEvents

\* the interval timer of startPeriodicCleanup fires
PeriodicCleanup ==
  \E isExtensionContextValid \in BOOLEAN :
    /\ elr.cleanupTimer
    /\ elr' = performPeriodicCleanup(elr, isExtensionContextValid)
    /\ elrCall' = [op |-> "performPeriodicCleanup", id |-> 0]
    /\ UNCHANGED outsideEvents

\* register with a category, on any element
RegisterInCategory ==
  \E element \in AllElements, metadata \in CategoryMetadata :
    /\ elr.nextListenerId <= MaxListeners
    /\ elr' = register_elr(elr, element, "h1", metadata)
    /\ elrCall' = [op |-> "register", id |-> elr.nextListenerId]
    /\ UNCHANGED outsideEvents

RemoveByElement ==
  \E element \in AllElements \cup {"null"} :
    /\ elr' = removeByElement(elr, element)
    /\ elrCall' = [op |-> "removeByElement", id |-> 0]
    /\ UNCHANGED outsideEvents

RemoveByCategory ==
  \E category \in Categories :
    /\ elr' = removeByCategory(elr, category)
    /\ elrCall' = [op |-> "removeByCategory", id |-> 0]
    /\ UNCHANGED outsideEvents

CleanupListeners ==
  /\ elr' = cleanup_elr(elr)
  /\ elrCall' = [op |-> "cleanup", id |-> 0]
  /\ UNCHANGED outsideEvents

Initialize ==
  /\ elr' = initialize(elr)
  /\ elrCall' = [op |-> "initialize", id |-> 0]
  /\ UNCHANGED outsideEvents

CleanupModule ==
  /\ elr' = cleanupModule(elr)
  /\ elrCall' = [op |-> "cleanupModule", id |-> 0]
  /\ UNCHANGED outsideEvents

AttemptAutomaticCleanup ==
  /\ elr' = attemptAutomaticCleanup(elr)
  /\ elrCall' = [op |-> "attemptAutomaticCleanup", id |-> 0]
  /\ UNCHANGED outsideEvents

InitEvents == MainIdle /\ ModulesIdle

NextEvents ==
  \/ RegisterListener
  \/ RemoveListener
  \/ RemoveByModule
  \/ PeriodicCleanup
  \/ CleanupListeners

SpecEvents == InitEvents /\ [][NextEvents]_vars

NextLifecycle ==
  \/ RegisterListener
  \/ Initialize
  \/ CleanupListeners
  \/ CleanupModule
  \/ AttemptAutomaticCleanup

SpecLifecycle == InitEvents /\ [][NextLifecycle]_vars

\* every operation that adds or removes listeners, over elements that may
\* refuse the removal
NextStats ==
  \/ RegisterInCategory
  \/ RemoveListener
  \/ RemoveByModule
  \/ RemoveByElement
  \/ RemoveByCategory
  \/ PeriodicCleanup
  \/ CleanupListeners

SpecStats == InitEvents /\ [][NextStats]_vars

(***************************************************************************)
(* debouncedStorageSet (utils/chromeApiSafe.js).                           *)
(***************************************************************************)
\* 100 in the source; scaled down so that the map fills up within MaxSets calls
MAX_ENTRIES == 2

MaxSets == 4

DebounceKeys == {"k1", "k2", "k3"}

timeoutsHas(d, key) == \E i \in DOMAIN d.timeouts : d.timeouts[i].key = key

timeoutsGet(d, key) ==
  d.timeouts[CHOOSE i \in DOMAIN d.timeouts : d.timeouts[i].key = key].timeoutId

\* clearTimeout stops a timer that has not fired and is a no-op otherwise
clearTimeout(setCalls, timeoutId) ==
  [setCalls EXCEPT ![timeoutId].timer = IF @ = "armed" THEN "cleared" ELSE @]

cleanupTimeout(d, key) ==
  LET others(t) == t.key # key
  IN  IF timeoutsHas(d, key)
        THEN [timeouts |-> SelectSeq(d.timeouts, others),
              calls |-> clearTimeout(d.calls, timeoutsGet(d, key))]
        ELSE d

setTimeoutFor(d, key) ==
  LET timeoutId == Len(d.calls) + 1
  IN  [timeouts |-> Append(d.timeouts, [key |-> key, timeoutId |-> timeoutId]),
       calls |->
         Append(d.calls,
                [key |-> key, timer |-> "armed", promise |-> "pending",
                 awaiting |-> FALSE])]

\* the call without the size check
debouncedStorageSetUnbounded(d, key) == setTimeoutFor(cleanupTimeout(d, key), key)

debouncedStorageSet(d, key) ==
  LET cleared == cleanupTimeout(d, key)
      room ==
        IF Len(cleared.timeouts) >= MAX_ENTRIES
          THEN cleanupTimeout(cleared, cleared.timeouts[1].key)
          ELSE cleared
  IN  setTimeoutFor(room, key)

\* the timer callback up to its await
timeoutFires(d, timeoutId) ==
  [d EXCEPT !.calls[timeoutId].timer = "fired", !.calls[timeoutId].awaiting = TRUE]

\* the timer callback after its await: cleanup(), then resolve(), on both paths
storageSetSettles(d, timeoutId) ==
  LET cleaned == cleanupTimeout(d, d.calls[timeoutId].key)
  IN  [cleaned EXCEPT
         !.calls[timeoutId].awaiting = FALSE,
         !.calls[timeoutId].promise = "resolved"]

outsideDebounce ==
  <<mainVars, matchVars, listenerVars, scriptVars, registryVars, eventVars, cacheVars,
    fallbackVars, analyzerVars, backgroundVars>>

DebouncedStorageSet ==
  \E key \in DebounceKeys :
    /\ Len(debounce.calls) < MaxSets
    /\ debounce' = debouncedStorageSet(debounce, key)
    /\ UNCHANGED outsideDebounce

TimeoutFires(timeoutId) ==
  /\ timeoutId \in DOMAIN debounce.calls
  /\ debounce.calls[timeoutId].timer = "armed"
  /\ debounce' = timeoutFires(debounce, timeoutId)
  /\ UNCHANGED outsideDebounce

\* safeStorageSet returns or throws
StorageSetSettles(timeoutId) ==
  /\ timeoutId \in DOMAIN debounce.calls
  /\ debounce.calls[timeoutId].awaiting
  /\ debounce' = storageSetSettles(debounce, timeoutId)
  /\ UNCHANGED outsideDebounce

InitDebounce == MainIdle /\ ModulesIdle

NextDebounce ==
  \/ DebouncedStorageSet
  \/ \E timeoutId \in 1..MaxSets : TimeoutFires(timeoutId)
  \/ \E timeoutId \in 1..MaxSets : StorageSetSettles(timeoutId)

\* timers that stay armed fire, and storage calls return
SpecDebounce ==
  /\ InitDebounce
  /\ [][NextDebounce]_vars
  /\ \A timeoutId \in 1..MaxSets :
       /\ WF_vars(TimeoutFires(timeoutId))
       /\ WF_vars(StorageSetSettles(timeoutId))

(***************************************************************************)
(* PermissionCache.syncFromStorage.  A persisted key is a sequence of      *)
(* tokens after its "origin:" prefix: "a" is an origin such as             *)
(* https://source.com, "/" a trailing slash, "->" the delimiter and "=>"   *)
(* something that is not the delimiter.                                    *)
(***************************************************************************)
MaxKeyLen == 4

MaxPersisted == 2

KeyTokens == {"a", "/", "->", "=>"}

RECURSIVE Keys_upTo(_)
Keys_upTo(n) ==
  IF n = 0
    THEN {<<>>}
    ELSE Keys_upTo(n - 1)
           \cup {Append(k, t) : k \in {x \in Keys_upTo(n - 1) : Len(x) = n - 1},
                                t \in KeyTokens}

PersistedKeys == Keys_upTo(MaxKeyLen) \ {<<>>}

\* key.split('->')
RECURSIVE splitKey(_)
splitKey(key) ==
  IF key = <<>>
    THEN <<(<<>>)>>
    ELSE LET rest == splitKey(Tail(key))
         IN  IF Head(key) = "->"
               THEN <<(<<>>)>> \o rest
               ELSE <<(<<Head(key)>> \o Head(rest))>> \o Tail(rest)

\* an origin, with or without its trailing slash
isOrigin(part) == part \in {<<"a">>, <<"a", "/">>}

normalizeOrigin(part) == <<Head(part)>>

isValidKey(key) ==
  LET parts == splitKey(key)
  IN  Len(parts) = 2 /\ isOrigin(parts[1]) /\ isOrigin(parts[2])

normalizeKey(key) ==
  LET parts == splitKey(key)
  IN  normalizeOrigin(parts[1]) \o <<"->">> \o normalizeOrigin(parts[2])

hasRequiredFields(entry) == entry.expiresAt # "missing"

\* a sync that takes every persisted entry as it is
syncFromStorageUnvalidated(entries) == [synced |-> TRUE, keys |-> {e.key : e \in entries}]

syncFromStorage(entries) ==
  [synced |-> TRUE,
   keys |-> {normalizeKey(e.key) :
               e \in {x \in entries : isValidKey(x.key) /\ hasRequiredFields(x)}}]

outsideCache ==
  <<mainVars, matchVars, listenerVars, scriptVars, registryVars, eventVars, debounceVars,
    fallbackVars, analyzerVars, backgroundVars>>

\* an earlier session, or anything else with access to storage, wrote an entry
PersistEntry ==
  \E key \in PersistedKeys, expiresAt \in {"future", "missing"} :
    /\ ~permissionCache.synced
    /\ Cardinality(persistedEntries) < MaxPersisted
    /\ \A e \in persistedEntries : e.key # key
    /\ persistedEntries' = persistedEntries \cup {[key |-> key, expiresAt |-> expiresAt]}
    /\ UNCHANGED <<permissionCache, outsideCache>>

SyncFromStorage ==
  /\ ~permissionCache.synced
  /\ permissionCache' = syncFromStorage(persistedEntries)
  /\ UNCHANGED <<persistedEntries, outsideCache>>

InitCache == MainIdle /\ ModulesIdle

NextCache == PersistEntry \/ SyncFromStorage

SpecCache == InitCache /\ [][NextCache]_vars

(***************************************************************************)
(* FallbackStrategyManager (FallbackStrategies.js): register, execute,     *)
(* executeFallbacks.  A strategy is its type, what its condition returns,  *)
(* its weight and how its implementation ends; the value a strategy        *)
(* resolves with is its type.                                              *)
(***************************************************************************)
MaxStrategies == 2

StrategyTypes == <<"cached_response", "default_value">>
Weights == {0, 1, 2}
Outcomes == {"succeeds", "fails"}
PrimaryOutcomes == {"succeeds", "throws", "rejects", "hangs"}
OperationPriorities == {"critical", "medium"}

\* the fallbackStrategies argument of register: up to MaxStrategies strategies
StrategyLists ==
  UNION {[1..n -> [applies : BOOLEAN, weight : Weights, outcome : Outcomes]] :
           n \in 0..MaxStrategies}

\* strategy.weight || 1 and the other defaults of register
registeredStrategy(strategy, i) ==
  [type |-> StrategyTypes[i],
   applies |-> strategy.applies,
   weight |-> IF strategy.weight = 0 THEN 1 ELSE strategy.weight,
   outcome |-> strategy.outcome]

\* the comparator of executeFallbacks: negative when a sorts before b
compareStrategies(priority, a, b) ==
  IF priority = "critical" THEN b.weight - a.weight ELSE a.weight - b.weight

\* Array.prototype.sort with that comparator (stable)
RECURSIVE insertStrategy(_, _, _)
insertStrategy(priority, x, sorted) ==
  IF sorted = <<>> THEN <<x>>
  ELSE IF compareStrategies(priority, x, Head(sorted)) < 0
       THEN <<x>> \o sorted
       ELSE <<Head(sorted)>> \o insertStrategy(priority, x, Tail(sorted))

RECURSIVE sortStrategies(_, _)
sortStrategies(priority, strategies) ==
  IF strategies = <<>> THEN <<>>
  ELSE insertStrategy(priority, strategies[Len(strategies)],
                      sortStrategies(priority, SubSeq(strategies, 1, Len(strategies) - 1)))

\* this.metrics.strategyUsage[operationId] in executeFallbacks, where
\* operationId is destructured from a config that has no such field: the
\* entry of the key "undefined", which exists once an operation of that name
\* was registered
operationStatsDefined(configs) == configs["undefined"].registered

\* the loop of executeFallbacks: an implementation that throws, rejects or
\* times out goes to the catch block; one that succeeds goes on to
\* operationStats.fallbackUsage[strategy.type], which throws a TypeError
\* into the same catch block when operationStats is undefined
RECURSIVE tryStrategies(_, _)
tryStrategies(sortedStrategies, statsDefined) ==
  IF sortedStrategies = <<>>
  THEN [status |-> "rejected", value |-> "primaryError"]
  ELSE IF Head(sortedStrategies).outcome = "succeeds" /\ statsDefined
       THEN [status |-> "resolved", value |-> Head(sortedStrategies).type]
       ELSE tryStrategies(Tail(sortedStrategies), statsDefined)

executeFallbacks(configs, config) ==
  LET sortedStrategies ==
        sortStrategies(config.priority,
                       SelectSeq(config.fallbackStrategies, LAMBDA st : st.applies))
  IN IF config.fallbackStrategies = <<>> \/ sortedStrategies = <<>>
     THEN [status |-> "rejected", value |-> "primaryError"]
     ELSE tryStrategies(sortedStrategies, operationStatsDefined(configs))

\* execute(operationId): the settlement of the promise it returns
execute(configs, cache, operationId, primary) ==
  LET config == configs[operationId] IN
    IF ~config.registered THEN [status |-> "rejected", value |-> "No configuration found"]
    ELSE IF cache[operationId] # "none"
         THEN [status |-> "resolved", value |-> cache[operationId]]
         ELSE IF primary = "succeeds"
              THEN [status |-> "resolved", value |-> "primary"]
              ELSE executeFallbacks(configs, config)

outsideFallback ==
  <<mainVars, matchVars, listenerVars, scriptVars, registryVars, eventVars, debounceVars,
    cacheVars, analyzerVars, backgroundVars>>

\* register(operationId, config, primaryFunction, fallbackStrategies); the
\* operations are registered before the first execute
RegisterOperation ==
  \E operationId \in OperationIds, priority \in OperationPriorities,
     strategies \in StrategyLists :
    /\ executed = NoExecute
    /\ operationId = "undefined" => strategies = <<>> /\ priority = "medium"
    /\ operationConfig' =
         [operationConfig EXCEPT ![operationId] =
            [registered |-> TRUE,
             priority |-> priority,
             fallbackStrategies |->
               [i \in DOMAIN strategies |-> registeredStrategy(strategies[i], i)]]]
    /\ UNCHANGED <<fallbackCache, executed, outsideFallback>>

\* execute(operationId, context), up to the settlement of its promise
Execute ==
  \E operationId \in OperationIds, primary \in PrimaryOutcomes :
    LET cacheHit == operationConfig[operationId].registered
                      /\ fallbackCache[operationId] # "none"
        result == execute(operationConfig, fallbackCache, operationId, primary)
    IN /\ executed' = [operationId |-> operationId,
                       primary |-> IF cacheHit \/ ~operationConfig[operationId].registered
                                   THEN "none" ELSE primary,
                       status |-> result.status,
                       value |-> result.value]
       /\ fallbackCache' = IF result.status = "resolved"
                           THEN [fallbackCache EXCEPT ![operationId] = result.value]
                           ELSE fallbackCache
       /\ UNCHANGED <<operationConfig, outsideFallback>>

\* Date.now() - cached.timestamp > cacheTimeout: the next getCachedResult
\* deletes the entry
CacheExpires ==
  \E operationId \in OperationIds :
    /\ fallbackCache[operationId] # "none"
    /\ fallbackCache' = [fallbackCache EXCEPT ![operationId] = "none"]
    /\ UNCHANGED <<operationConfig, executed, outsideFallback>>

InitFallback == MainIdle /\ ModulesIdle

NextFallback == RegisterOperation \/ Execute \/ CacheExpires

SpecFallback == InitFallback /\ [][NextFallback]_vars

(***************************************************************************)
(* ScriptAnalyzer (ScriptAnalyzer.js): activate, deactivate, cleanup and   *)
(* the MutationObservers of startMonitoring.                               *)
(***************************************************************************)
MaxObservers == 4
MaxBlocked == 3

\* startMonitoring(): a new observer replaces this.scriptObserver; it
\* observes when document.documentElement || document.body is there
startMonitoring(a, targetNode) ==
  [a EXCEPT !.scriptObserver = a.created + 1,
            !.created = @ + 1,
            !.connected = IF targetNode THEN @ \cup {a.created + 1} ELSE @]

\* stopMonitoring(): disconnect() of this.scriptObserver, if there is one
stopMonitoring(a) ==
  IF a.scriptObserver # 0
  THEN [a EXCEPT !.connected = @ \ {a.scriptObserver}, !.scriptObserver = 0]
  ELSE a

activate(a, targetNode) == startMonitoring([a EXCEPT !.isActive = TRUE], targetNode)

deactivate(a) == stopMonitoring([a EXCEPT !.isActive = FALSE])

cleanup_analyzer(a) ==
  [stopMonitoring([a EXCEPT !.isActive = FALSE]) EXCEPT !.blockedScriptsCount = 0]

outsideAnalyzer ==
  <<mainVars, matchVars, listenerVars, scriptVars, registryVars, eventVars, debounceVars,
    cacheVars, fallbackVars, backgroundVars>>

Activate ==
  \E targetNode \in BOOLEAN :
    /\ analyzer.created < MaxObservers
    /\ analyzer' = activate(analyzer, targetNode)
    /\ UNCHANGED outsideAnalyzer

Deactivate ==
  /\ analyzer' = deactivate(analyzer)
  /\ UNCHANGED outsideAnalyzer

CleanupAnalyzer ==
  /\ analyzer' = cleanup_analyzer(analyzer)
  /\ UNCHANGED outsideAnalyzer

\* a script that matches is added to the document: the callback of every
\* connected observer runs, removes it and counts it
ScriptInjected ==
  /\ analyzer.isActive
  /\ analyzer.connected # {}
  /\ analyzer.blockedScriptsCount + Cardinality(analyzer.connected) <= MaxBlocked
  /\ analyzer' = [analyzer EXCEPT
                    !.blockedScriptsCount = @ + Cardinality(analyzer.connected)]
  /\ UNCHANGED outsideAnalyzer

InitAnalyzer == MainIdle /\ ModulesIdle

NextAnalyzer == Activate \/ Deactivate \/ CleanupAnalyzer \/ ScriptInjected

SpecAnalyzer == InitAnalyzer /\ [][NextAnalyzer]_vars

(***************************************************************************)
(* background.js, the updateWhitelist request: chrome.storage.local.get,   *)
(* its callback, which builds the new list and calls storage.set, and the  *)
(* write.  Requests of the popup arrive at any time; storage serves the    *)
(* operations in the order they were issued.                               *)
(***************************************************************************)
UpdateDomains == {"a.c", "b.c"}
WhitelistActions == {"add", "remove"}

includes(list, domain) == \E i \in DOMAIN list : list[i] = domain

\* the body of the callback of storage.get: push, filter or neither
updatedWhitelist(list, domain, whitelistAction) ==
  IF whitelistAction = "add" /\ ~includes(list, domain)
  THEN Append(list, domain)
  ELSE IF whitelistAction = "remove"
       THEN SelectSeq(list, LAMBDA d : d # domain)
       ELSE list

outsideBackground ==
  <<mainVars, matchVars, listenerVars, scriptVars, registryVars, eventVars, debounceVars,
    cacheVars, fallbackVars, analyzerVars>>

\* chrome.runtime.onMessage with action "updateWhitelist": storage.get is
\* issued
UpdateRequested(r) ==
  \E domain \in UpdateDomains, whitelistAction \in WhitelistActions :
    /\ updates[r].pc = "none"
    /\ updates' = [updates EXCEPT ![r] =
         [NoUpdate EXCEPT !.pc = "get", !.domain = domain,
                          !.whitelistAction = whitelistAction]]
    /\ storageOps' = Append(storageOps, r)
    /\ UNCHANGED <<storedWhitelist, outsideBackground>>

\* storage serves the get: the result is what storage holds now
GetServed(r) ==
  /\ updates[r].pc = "get"
  /\ storageOps # <<>> /\ Head(storageOps) = r
  /\ storageOps' = Tail(storageOps)
  /\ updates' = [updates EXCEPT ![r] = [@ EXCEPT !.pc = "callback",
                                                 !.result = storedWhitelist]]
  /\ UNCHANGED <<storedWhitelist, outsideBackground>>

\* the callback of the get runs: the new list is built and storage.set issued
GetCallback(r) ==
  /\ updates[r].pc = "callback"
  /\ updates' = [updates EXCEPT ![r] =
       [@ EXCEPT !.pc = "set",
                 !.whitelist = updatedWhitelist(updates[r].result, updates[r].domain,
                                                updates[r].whitelistAction)]]
  /\ storageOps' = Append(storageOps, r)
  /\ UNCHANGED <<storedWhitelist, outsideBackground>>

\* storage serves the set; its callback answers the request
SetServed(r) ==
  /\ updates[r].pc = "set"
  /\ storageOps # <<>> /\ Head(storageOps) = r
  /\ storageOps' = Tail(storageOps)
  /\ storedWhitelist' = updates[r].whitelist
  /\ updates' = [updates EXCEPT ![r] = [@ EXCEPT !.pc = "done"]]
  /\ UNCHANGED outsideBackground

InitBackground == MainIdle /\ ModulesIdle

NextBackground ==
  \E r \in UpdateRequests :
    \/ UpdateRequested(r)
    \/ GetServed(r)
    \/ GetCallback(r)
    \/ SetServed(r)

SpecBackground == InitBackground /\ [][NextBackground]_vars




NextRouting == CallStep \/ TimeStep \/ PageMessage

SpecRouting == InitRouting /\ [][NextRouting]_vars

\* the permission checks of the injected script against whoever answers
NextInterceptor == CheckedCallStep \/ TimerStep \/ ResponseStep \/ PageMessage

SpecInterceptor == InitPage /\ [][NextInterceptor]_vars

\* the modals of link clicks and form submissions, the user and the settings
NextModal == LinkStep \/ ClickStep \/ KeyStep \/ SettingsStep

SpecModal == Init /\ [][NextModal]_vars

\* the content script against whoever posts checks, and the user who decides
NextGuardian == CheckStep \/ DispatchMessage \/ ClickStep \/ SettingsLoaded

SpecGuardian == Init /\ [][NextGuardian]_vars

\* the whitelist and its cache: the settings, the requests of the background
\* script, the links and the checks
InitWhitelist == (\E wl \in Whitelists : InitStored(0, wl)) /\ ModulesIdle

NextWhitelist ==
  \/ SettingsLoaded
  \/ ExecuteRulesRequest
  \/ WhitelistChanged
  \/ WhitelistUpdated
  \/ LinkStep
  \/ CheckStep
  \/ DispatchMessage

SpecWhitelist == InitWhitelist /\ [][NextWhitelist]_vars

\* the interceptor and the Guardian on the same targets: the checks are those
\* the interceptor posts
NextOrigin ==
  \/ \E u \in Urls : LocationAssign(u)
  \/ DispatchMessage
  \/ ClickStep
  \/ SettingsLoaded

SpecOrigin == InitRouting /\ [][NextOrigin]_vars

\* the user at the modal against the timer of the interceptor
NextAllow ==
  \/ WindowOpen(UrlCross, "none")
  \/ LocationAssign(UrlCross)
  \/ \E i \in DOMAIN calls : PermissionTimeout(i)
  \/ DispatchMessage
  \/ ClickStep

SpecAllow == InitRouting /\ [][NextAllow]_vars

Next == NextRouting \/ NextInterceptor \/ NextModal \/ NextGuardian

Spec == Init /\ [][Next]_vars

(***************************************************************************)
(* Properties.                                                             *)
(***************************************************************************)
timedOut(c) == c.settledBy = "timeout"

matches(c, msg) ==
  /\ msg.type = "NAV_GUARDIAN_RESPONSE"
  /\ msg.source = "window"
  /\ c.state = "waiting"
  /\ msg.messageId = c.messageId

\* C4: a message event resolves exactly the pending checks whose messageId
\* equals that of the response it carries, with the response's verdict, and
\* leaves every other check as it was; a response that matches no pending
\* check changes nothing.
C4_ResponseResolvesItsCheck ==
  [][Dispatched =>
       \A i \in DOMAIN calls :
         IF matches(calls[i], Head(msgQueue))
         THEN /\ calls'[i].settledBy = "response"
              /\ calls'[i].result = Head(msgQueue).allowed
              /\ calls'[i].origCalls = IF Head(msgQueue).allowed THEN 1 ELSE 0
         ELSE calls'[i] = calls[i]]_vars

\* two checks were pending, two responses came; the later check was resolved
\* while the earlier one still waits
C4_Witness ==
  /\ Len(calls) = 2
  /\ calls[1].state = "waiting"
  /\ calls[2].settledBy = "response"
  /\ forged = 2
  /\ msgQueue = <<>>

\* the override called the original primitive at once and posted nothing
passedThrough ==
  /\ lastCall'.route = "passthrough"
  /\ msgQueue' = msgQueue
  /\ calls' = calls

\* the override returned at once: nothing posted, no check started, no
\* modal, the original primitive not called
blockedAtOnce ==
  /\ lastCall'.route = "block"
  /\ msgQueue' = msgQueue
  /\ calls' = calls
  /\ modals' = modals

\* the override started the permission check
sentToCheck ==
  /\ lastCall'.route = "check"
  /\ Len(calls') = Len(calls) + 1

\* the target has the scheme and the host of the page
sameOrigin(u) == u.kind = "url" /\ ~isCrossOrigin_injected(u)

\* C2: for each of the four overridden primitives and every same-origin
\* target, whatever clicks and opens came before, the interceptor posts no
\* check and does not block: it calls the original primitive.
C2_SameOriginPassesThrough ==
  [][\A u \in Urls :
       (sameOrigin(u) /\ lastCall'.url = u) =>
         /\ \A n \in Names : WindowOpen(u, n) => passedThrough
         /\ LocationAssign(u) => passedThrough
         /\ LocationReplace(u) => passedThrough
         /\ LocationHrefSet(u) => passedThrough]_vars

\* C10 as the spec states it: each of the four overrides, for a target
\* that is not same-origin, blocks at once when the pop-under score reaches
\* the threshold.
C10_EveryOverrideBlocks ==
  [][\A u \in Urls :
       (isCrossOrigin_injected(u) /\ lastCall'.url = u) =>
         /\ \A n \in Names :
              (WindowOpen(u, n) /\ reachesThreshold(u, n)) => blockedAtOnce
         /\ \A n \in Names :
              ((LocationAssign(u) \/ LocationReplace(u) \/ LocationHrefSet(u))
                 /\ reachesThreshold(u, n)) => blockedAtOnce]_vars

\* C10: the window.open override, for a target that is not same-origin, runs
\* the pop-under heuristic and blocks at once when the score reaches the
\* threshold: no check, no modal, the original never called.  The overrides
\* of location.assign, location.replace and the location.href setter run no
\* heuristic: they never block at once, and send such a target to the
\* permission check whatever its score.
C10_WindowOpenBlocks ==
  [][\A u \in Urls :
       (isCrossOrigin_injected(u) /\ lastCall'.url = u) =>
         /\ \A n \in Names :
              (WindowOpen(u, n) /\ reachesThreshold(u, n)) => blockedAtOnce
         /\ (LocationAssign(u) \/ LocationReplace(u) \/ LocationHrefSet(u))
              => sentToCheck]_vars

\* a cross-origin window.open was blocked at once, and a location call
\* whose target is a pop-under URL went to the permission check
C10_Witness ==
  /\ lastCall.navType = "window.open"
  /\ lastCall.route = "block"
  /\ isCrossOrigin_injected(lastCall.url)
  /\ \E i \in DOMAIN calls :
       calls[i].navType # "window.open" /\ isUrlMalicious(calls[i].url)

\* the modal built for the check with this messageId that still awaits its answer
hasOpenModal(id) ==
  \E i \in DOMAIN modals :
    /\ modals[i].cb = Callback("msg", id)
    /\ modals[i].inDom
    /\ ~modals[i].hasResponded

\* C3: every check the content script has taken up and not yet answered has
\* a modal on display whose answer will answer it; none is left pending
\* with nothing that could ever answer it.
C3_EveryPendingCheckHasItsModal ==
  \A id \in pendingNavigationModals : hasOpenModal(id)

\* the message event delivers a check from this window whose messageId is pending
duplicateDelivered ==
  /\ Dispatched
  /\ Head(msgQueue).type = "NAV_GUARDIAN_CHECK"
  /\ Head(msgQueue).source = "window"
  /\ Head(msgQueue).messageId \in pendingNavigationModals

\* every modal invoked its callback at most once and counted as often
oneAnswerEach ==
  \A i \in DOMAIN modals :
    /\ modals[i].calls <= 1
    /\ modals[i].incAllowed + modals[i].incBlocked = modals[i].calls

\* C5: a check whose messageId is pending is ignored: it builds no modal,
\* changes no counter, posts no response and leaves the pending set as it
\* was; and the one modal of a messageId invokes its callback, so posts its
\* response, and counts at most once.
C5_DuplicateCheckIgnored ==
  /\ []oneAnswerEach
  /\ [][duplicateDelivered =>
          /\ Len(modals') = Len(modals)
          /\ \A i \in DOMAIN modals : [modals'[i] EXCEPT !.dup = FALSE]
                                        = [modals[i] EXCEPT !.dup = FALSE]
          /\ pendingNavigationModals' = pendingNavigationModals
          /\ navigationStats' = navigationStats
          /\ storage' = storage
          /\ msgQueue' = Tail(msgQueue)]_vars

\* a duplicate came while the modal was up, and the modal was then answered once
C5_Witness ==
  \E i \in DOMAIN modals :
    /\ modals[i].dup
    /\ modals[i].hasResponded
    /\ modals[i].calls = 1
    /\ navigationStats.allowedCount + navigationStats.blockedCount = 1

modalsInDom == {i \in DOMAIN modals : modals[i].inDom}

\* C6: at most one modal is in the document; a step taken while one is
\* there puts no other one there, be it a show-request or the step that
\* closes the modal.
C6_AtMostOneModal ==
  /\ [](Cardinality(modalsInDom) <= 1)
  /\ [][existingModal(modals) =>
          \A i \in DOMAIN modals' :
            modals'[i].inDom => (i \in DOMAIN modals /\ modals[i].inDom)]_vars

\* a check asked for a modal while another was up, and that one has closed:
\* no modal is on display
C6_Witness ==
  /\ \E id \in pendingNavigationModals :
       \A i \in DOMAIN modals : modals[i].cb # Callback("msg", id)
  /\ \E i \in DOMAIN modals : modals[i].hasResponded
  /\ modalsInDom = {}

\* C7: whatever the clicks on Allow and Block and the Enter and Escape keys
\* on a modal, its callback is invoked once with the decision of the first
\* of them, and one counter is incremented once: allowedCount for allow,
\* blockedCount for block.
C7_OneDecision ==
  \A i \in DOMAIN modals :
    IF modals[i].first = "none"
    THEN /\ modals[i].calls = 0
         /\ modals[i].incAllowed = 0 /\ modals[i].incBlocked = 0
    ELSE /\ modals[i].calls = 1
         /\ modals[i].arg = (modals[i].first = "allow")
         /\ modals[i].incAllowed = (IF modals[i].first = "allow" THEN 1 ELSE 0)
         /\ modals[i].incBlocked = (IF modals[i].first = "allow" THEN 0 ELSE 1)

\* both buttons of a modal were clicked and a key came after its answer
C7_Witness ==
  \E i \in DOMAIN modals :
    /\ ~modals[i].allowArmed /\ ~modals[i].denyArmed
    /\ modals[i].late
    /\ modals[i].calls = 1

\* this step answers modal i
answered(i) == ~modals[i].hasResponded /\ modals'[i].hasResponded

\* this step is handleNavigationMessage posting its immediate response
autoResponse == Dispatched /\ msgQueue' # Tail(msgQueue)

\* this step posts a response of the content script
responsePosted ==
  \/ autoResponse
  \/ \E i \in DOMAIN modals : answered(i) /\ modals[i].cb.kind = "msg"

\* one counter goes up by one and the counters are written to storage
countedAndPersisted ==
  /\ navigationStats'.allowedCount + navigationStats'.blockedCount
       = navigationStats.allowedCount + navigationStats.blockedCount + 1
  /\ navigationStats'.allowedCount >= navigationStats.allowedCount
  /\ navigationStats'.blockedCount >= navigationStats.blockedCount
  /\ storage'.navigationStats = navigationStats'

\* C8 as the spec states it: every response the content script posts,
\* automatic ones too, increments one counter and persists the counters.
C8_EveryResponseCounted ==
  [][responsePosted => countedAndPersisted]_vars

\* C8: every decision taken through the modal increments one counter by
\* one, allowedCount on allow and blockedCount on block, and persists the
\* counters; a response posted without a modal allows the navigation and
\* changes neither the counters nor storage.
C8_ModalDecisionsCounted ==
  [][/\ \A i \in DOMAIN modals :
          answered(i) =>
            /\ countedAndPersisted
            /\ navigationStats' = IF modals'[i].first = "allow"
                                  THEN [navigationStats EXCEPT !.allowedCount = @ + 1]
                                  ELSE [navigationStats EXCEPT !.blockedCount = @ + 1]
     /\ autoResponse =>
          /\ msgQueue'[Len(msgQueue')] = ResponseMsg(Head(msgQueue).messageId, TRUE)
          /\ navigationStats' = navigationStats
          /\ storage' = storage]_vars

\* check 1 was answered through its modal, check 2 at once
C8_Witness ==
  /\ Len(modals) = 1
  /\ modals[1].cb = Callback("msg", 1)
  /\ modals[1].hasResponded
  /\ msgQueue = <<ResponseMsg(2, TRUE)>>
  /\ navigationStats.allowedCount + navigationStats.blockedCount = 1

allowedDecisions == Cardinality({i \in DOMAIN modals : modals[i].incAllowed > 0})

blockedDecisions == Cardinality({i \in DOMAIN modals : modals[i].incBlocked > 0})

\* C9: the counters in storage are the counters storage had when the page
\* loaded plus one per decision taken since.
C9_NoIncrementLost ==
  storage.navigationStats =
    [blockedCount |-> StoredStats.blockedCount + blockedDecisions,
     allowedCount |-> StoredStats.allowedCount + allowedDecisions]

\* a cross-origin target that MaliciousPatternDetector does not flag
crossClean(u) == isCrossOrigin_injected(u) /\ ~isUrlMalicious(u)

\* no click within the click window
noRecentClick == now - lastDocumentClick >= CLICK_WINDOW_MS

\* three window.open calls were made within the tracking window: the next
\* call is the fourth of the burst
burstOfThree ==
  /\ Len(recentWindowOpens) = 3
  /\ Len(trackWindowOpen(recentWindowOpens, now)) = 4

\* C11 as the spec states it: on the fourth window.open of a burst, with no
\* recent click and a target no signature flags, the frequency signal alone
\* brings the score to the threshold.
C11_FrequencyAloneBlocks ==
  (burstOfThree /\ noRecentClick) =>
    \A u \in Urls : crossClean(u) => reachesThreshold(u, "none")

\* C11: on the fourth window.open of a burst, with no recent click and a
\* target no signature flags, the frequency signal adds 2, short of the
\* threshold 4: the call is blocked at once only when its target name is
\* _blank (2 more), and goes to the permission check otherwise; the three
\* calls before it are not blocked at once.
C11_FourthBlankCallBlocked ==
  /\ []((burstOfThree /\ noRecentClick) =>
          \A u \in Urls :
            crossClean(u) =>
              /\ popUnderScore(u, "none", now, lastDocumentClick, recentWindowOpens)
                   = SCORE_TOO_FREQUENT
              /\ popUnderScore(u, "_blank", now, lastDocumentClick, recentWindowOpens)
                   = SCORE_TOO_FREQUENT + SCORE_BLANK_TARGET)
  /\ [][\A u \in Urls :
          (crossClean(u) /\ noRecentClick /\ lastCall'.url = u) =>
            /\ (burstOfThree /\ WindowOpen(u, "_blank")) => blockedAtOnce
            /\ (burstOfThree /\ WindowOpen(u, "none")) => sentToCheck
            /\ (Len(recentWindowOpens) < 3 /\ (\E n \in Names : WindowOpen(u, n)))
                 => sentToCheck]_vars

\* the fourth call of a burst, with a _blank target no signature flags and
\* no click before it, was blocked at once
C11_Witness ==
  /\ lastCall.navType = "window.open"
  /\ lastCall.route = "block"
  /\ crossClean(lastCall.url)
  /\ Len(recentWindowOpens) = 4
  /\ lastDocumentClick = 0
  /\ \E i \in DOMAIN calls : calls[i].navType = "window.open"

\* the pop-under score of a call made now, had the last click come at lastClick
scoreWithClickAt(u, n, lastClick) ==
  popUnderScore(u, n, now, lastClick, recentWindowOpens)

\* C12 as the spec states it: a call outside the click window scores at
\* least as high as the same call within it.
C12_NoClickScoresHigher ==
  \A u \in Urls, n \in Names :
    scoreWithClickAt(u, n, now - CLICK_WINDOW_MS) >= scoreWithClickAt(u, n, now)

\* C12: all other signals being equal, a window.open made within the click
\* window scores exactly 3 more than the same call made outside it: following
\* a click is the more suspicious case.
C12_ClickScoresHigher ==
  \A u \in Urls, n \in Names :
    /\ scoreWithClickAt(u, n, now) =
         scoreWithClickAt(u, n, now - CLICK_WINDOW_MS) + SCORE_CLICK_TRIGGERED
    /\ scoreWithClickAt(u, n, lastDocumentClick) =
         IF noRecentClick
         THEN scoreWithClickAt(u, n, now - CLICK_WINDOW_MS)
         ELSE scoreWithClickAt(u, n, now)

\* a first window.open, with a _blank target no signature flags, was blocked
\* at once for coming within the click window
C12_Witness ==
  /\ lastCall.navType = "window.open"
  /\ lastCall.route = "block"
  /\ ~isUrlMalicious(lastCall.url)
  /\ Len(recentWindowOpens) = 1
  /\ ~noRecentClick

\* the check c fell back after its attempts were rejected
failedOut(c) == c.settledBy = "error"

\* C13: a permission check whose every attempt is rejected with an error
\* resolves to deny for window.open, to allow for a location primitive whose
\* URL is not flagged, and to deny for a location primitive whose URL is
\* flagged; the original primitive is called exactly when the check resolves
\* to allow.
C13_ErrorFallsToRiskDefault ==
  /\ [](\A i \in DOMAIN calls :
          failedOut(calls[i]) =>
            /\ Len(calls[i].errors) = MAX_PERMISSION_RETRIES + 1
            /\ calls[i].result =
                 (calls[i].navType # "window.open" /\ ~isUrlMalicious(calls[i].url))
            /\ calls[i].origCalls = (IF calls[i].result THEN 1 ELSE 0)
            /\ ~calls[i].listening /\ ~calls[i].timerArmed)
  /\ [][\A i \in DOMAIN calls :
          (/\ calls'[i] # calls[i]
           /\ Len(calls'[i].errors) = MAX_PERMISSION_RETRIES + 1
           /\ Len(calls[i].errors) = MAX_PERMISSION_RETRIES)
            => failedOut(calls'[i])]_vars

\* a location.href check of a target no signature flags was rejected at
\* every attempt and resolved to allow
C13_Witness ==
  \E i \in DOMAIN calls :
    /\ failedOut(calls[i])
    /\ calls[i].navType = "location.href"
    /\ ~isUrlMalicious(calls[i].url)
    /\ calls[i].result
    /\ calls[i].origCalls = 1

\* C14 as the spec states it: a check whose listener registration throws
\* falls back to the risk default at once, without a retry.
C14_ListenerFailureNotRetried ==
  \A i \in DOMAIN calls :
    (calls[i].errors # <<>> /\ calls[i].errors[1] = "listener") =>
      /\ failedOut(calls[i])
      /\ calls[i].attempt = 0

\* C14: a check whose attempt is rejected, by the listener registration or
\* by postMessage alike, falls back to the risk default only at the last
\* attempt; before it the check waits for the retry delay and is tried again.
C14_EveryFailureRetried ==
  /\ [](\A i \in DOMAIN calls :
          /\ failedOut(calls[i]) => calls[i].attempt = MAX_PERMISSION_RETRIES
          /\ (/\ calls[i].errors # <<>>
              /\ Len(calls[i].errors) = calls[i].attempt + 1
              /\ calls[i].attempt < MAX_PERMISSION_RETRIES)
               => /\ calls[i].state = "retryDelay"
                  /\ calls[i].settledBy = "none"
                  /\ calls[i].origCalls = 0)
  /\ [][\A i \in DOMAIN calls :
          (calls[i].state = "retryDelay" /\ calls'[i] # calls[i])
            => calls'[i].attempt = calls[i].attempt + 1]_vars

\* a check whose listener registration threw was tried again, and the second
\* attempt posted its NAV_GUARDIAN_CHECK
C14_Witness ==
  \E i \in DOMAIN calls :
    /\ calls[i].errors = <<"listener">>
    /\ calls[i].attempt = 1
    /\ calls[i].state = "waiting"

\* the message event being dispatched does not come from the window
foreignEvent == Dispatched /\ Head(msgQueue).source # "window"

\* C15: a message event whose source is not the window is consumed without
\* effect: the Guardian shows no modal, marks no check pending, changes no
\* counter and posts nothing; the interceptor resolves no pending check.
C15_ForeignMessageIgnored ==
  [][foreignEvent =>
       /\ msgQueue' = Tail(msgQueue)
       /\ modals' = modals
       /\ pendingNavigationModals' = pendingNavigationModals
       /\ navigationStats' = navigationStats
       /\ storage' = storage
       /\ storageEvents' = storageEvents
       /\ whitelistCache' = whitelistCache
       /\ calls' = calls]_vars

\* a check from another source came while no modal was up, and a response
\* from another source came with the messageId of a waiting check: the check
\* still waits for the answer to the one modal its own message got
C15_Witness ==
  /\ ignoredForeign = {"response", "check"}
  /\ msgQueue = <<>>
  /\ Len(modals) = 1
  /\ \E i \in DOMAIN calls :
       /\ calls[i].state = "waiting"
       /\ modals[1].cb = Callback("msg", calls[i].messageId)
       /\ pendingNavigationModals = {calls[i].messageId}
  /\ navigationStats = ZeroStats

\* the message event being dispatched is a check from the window, not a
\* duplicate of a pending one, for a target whose hostname matches an entry
\* of the whitelist
whitelistedCheck ==
  /\ Dispatched
  /\ Head(msgQueue).source = "window"
  /\ Head(msgQueue).type = "NAV_GUARDIAN_CHECK"
  /\ ~isDuplicateCheck(pendingNavigationModals, Head(msgQueue).messageId)
  /\ Head(msgQueue).url.kind = "url"
  /\ whitelistSome(whitelist, Head(msgQueue).url.host)

\* C16: a check for a target whose hostname matches a whitelist entry is
\* answered within its own message event by a NAV_GUARDIAN_RESPONSE with its
\* messageId and allowed = true; no modal is shown, no check is marked
\* pending and no counter changes.  The whitelist is the one the content
\* script holds, whatever the one-entry cache held before.
C16_WhitelistedTargetAllowed ==
  [][whitelistedCheck =>
       /\ msgQueue' = Append(Tail(msgQueue),
                             ResponseMsg(Head(msgQueue).messageId, TRUE))
       /\ modals' = modals
       /\ pendingNavigationModals' = pendingNavigationModals
       /\ navigationStats' = navigationStats
       /\ storage' = storage]_vars

\* with example.com on the whitelist and the Guardian enabled, the check for
\* sub.example.com was answered allowed, after an earlier check for the same
\* target got a modal because the whitelist was not loaded yet
C16_Witness ==
  /\ settingsLoaded
  /\ navigationGuardEnabled
  /\ whitelist = <<TrustedHost>>
  /\ whitelistCache = [domain |-> TrustedSub, result |-> "true"]
  /\ \E id \in MsgIds : msgQueue = <<ResponseMsg(id, TRUE)>>
  /\ Len(modals) = 1
  /\ modals[1].cb.kind = "msg"
  /\ modals[1].inDom

\* the pattern without its leading "*."
baseOf(pattern) ==
  IF startsWith(pattern, <<"*", ".">>) THEN slice(pattern, 2) ELSE pattern

\* the domain equals the base of the pattern or ends with "." and the base
matchesBase(domain, pattern) ==
  \/ domain = baseOf(pattern)
  \/ endsWith(domain, <<".">> \o baseOf(pattern))

\* C17 as the spec states it: every version of domainMatches returns true
\* exactly when the domain equals the base of the pattern or ends with "."
\* and the base.
C17_MatchesExactlyBase ==
  matchResult.done =>
    /\ matchResult.content = matchesBase(matchDomain, matchPattern)
    /\ matchResult.utils = matchesBase(matchDomain, matchPattern)

\* C17: domainMatches of content.js returns true exactly when the domain
\* equals the base of the pattern or ends with "." and the base; the version
\* of utils/domainMatch.js and url-utils does so when domain and pattern are
\* both non-empty, and returns false when either is empty.  So "*.a" and "a"
\* each match a and a.a, and neither matches aa.
C17_MatchesBaseOfNonEmpty ==
  matchResult.done =>
    /\ matchResult.content = matchesBase(matchDomain, matchPattern)
    /\ matchResult.utils =
         (/\ matchDomain # <<>>
          /\ matchPattern # <<>>
          /\ matchesBase(matchDomain, matchPattern))
    /\ (matchPattern \in {<<"a">>, <<"*", ".", "a">>} /\ matchDomain = <<"a">>)
         => (matchResult.content /\ matchResult.utils)
    /\ (matchPattern \in {<<"a">>, <<"*", ".", "a">>}
        /\ matchDomain = <<"a", ".", "a">>)
         => (matchResult.content /\ matchResult.utils)
    /\ (matchPattern \in {<<"a">>, <<"*", ".", "a">>} /\ matchDomain = <<"a", "a">>)
         => (~matchResult.content /\ ~matchResult.utils)

\* the subdomain a.a was matched against the wildcard pattern *.a by both
\* versions
C17_Witness ==
  /\ matchResult.done
  /\ matchDomain = <<"a", ".", "a">>
  /\ matchPattern = <<"*", ".", "a">>
  /\ matchResult.content
  /\ matchResult.utils

\* the step is a call of the overridden addEventListener
addCalled == addCount' # addCount

\* the registration is a click listener whose source text scores at or above
\* the threshold
maliciousClick(call) ==
  /\ call.type = "click"
  /\ call.listener.kind = "function"
  /\ call.listener.score >= CLICK_LISTENER_THRESHOLD

\* C18 as the spec states it: the override drops the click listeners that
\* score at or above the threshold and passes every other registration to
\* the original addEventListener.
C18_OnlyMaliciousClickDropped ==
  [][addCalled =>
       IF maliciousClick(lastAdd'.call)
       THEN listeners' = listeners
       ELSE listeners' = Append(listeners, lastAdd'.call)]_vars

\* C18: the override drops, without throwing, every click listener function
\* whose source text scores at or above the threshold and every listener of
\* type unload; it passes every other registration to the original
\* addEventListener with the same target, type, listener and options.
C18_MaliciousClickAndUnloadDropped ==
  [][addCalled =>
       /\ lastAdd'.outcome \in {"dropped", "passed"}
       /\ IF maliciousClick(lastAdd'.call) \/ lastAdd'.call.type = "unload"
          THEN lastAdd'.outcome = "dropped" /\ listeners' = listeners
          ELSE /\ lastAdd'.outcome = "passed"
               /\ listeners' = Append(listeners, lastAdd'.call)]_vars

\* a click listener at the threshold was dropped after a click listener just
\* below it was passed on with its target and options
C18_Witness ==
  /\ lastAdd.outcome = "dropped"
  /\ lastAdd.call.type = "click"
  /\ lastAdd.call.listener = Listener("function", CLICK_LISTENER_THRESHOLD)
  /\ listeners = <<Registration("button", "click",
                                Listener("function", CLICK_LISTENER_THRESHOLD - 1),
                                "capture")>>

\* the sum of the scores of the signatures in `matched`
RECURSIVE weightOf(_, _)
weightOf(signatures, matched) ==
  IF matched = {}
  THEN 0
  ELSE LET k == CHOOSE x \in matched : TRUE
       IN signatures[k] + weightOf(signatures, matched \ {k})

\* C19: analyzeScriptContent returns as riskScore the sum of the scores of
\* all matching signatures, with no cap, and one threat per match; isPopUnder
\* is riskScore >= 8 and shouldBlock is riskScore >= 6, so isPopUnder implies
\* shouldBlock; a script that matches one signature more never scores less.
C19_RiskScoreIsSumOfMatches ==
  /\ [](scriptAnalysis.returned =>
          /\ scriptAnalysis.riskScore = weightOf(popUnderSignatures, scriptContent.popUnder)
                                  + weightOf(behaviorPatterns, scriptContent.behavior)
          /\ Len(scriptAnalysis.threats) = Cardinality(scriptContent.popUnder)
                                     + Cardinality(scriptContent.behavior)
          /\ scriptAnalysis.isPopUnder = (scriptAnalysis.riskScore >= IS_POP_UNDER_SCORE)
          /\ scriptAnalysis.shouldBlock = (scriptAnalysis.riskScore >= SHOULD_BLOCK_SCORE)
          /\ scriptAnalysis.isPopUnder => scriptAnalysis.shouldBlock)
  /\ [][(scriptAnalysis.returned /\ scriptAnalysis'.returned)
          => /\ scriptAnalysis'.riskScore >= scriptAnalysis.riskScore
             /\ scriptAnalysis.isPopUnder => scriptAnalysis'.isPopUnder
             /\ scriptAnalysis.shouldBlock => scriptAnalysis'.shouldBlock]_vars

\* a script that matches every signature was analysed: its score is the sum
\* of all fourteen scores
C19_Witness ==
  /\ scriptAnalysis.returned
  /\ scriptContent = Script(DOMAIN popUnderSignatures, DOMAIN behaviorPatterns)
  /\ scriptAnalysis.riskScore = 71
  /\ Len(scriptAnalysis.threats) = 14
  /\ scriptAnalysis.isPopUnder
  /\ scriptAnalysis.shouldBlock

\* the step is the call of cleanupAll
cleanupAllCalled == cleanupPhase = "idle" /\ cleanupPhase' = "running"

\* the step is the return of cleanupAll
cleanupAllReturned == cleanupPhase = "running" /\ cleanupPhase' = "returned"

\* C20: cleanupAll invokes cleanup() of every module registered when it is
\* called, once each; it returns one result per module, with success = false
\* for a module whose cleanup throws, rejects or times out and success = true
\* otherwise, so a failure of one module keeps no other from being cleaned;
\* when it returns the registry holds no module.
C20_CleanupAllCleansEveryModule ==
  /\ [][cleanupAllCalled =>
          /\ Len(moduleArray') = Len(modules)
          /\ \A i \in DOMAIN modules :
               /\ \E j \in DOMAIN moduleArray' : moduleArray'[j] = modules[i]
               /\ cleanupCalls'[modules[i].name] = cleanupCalls[modules[i].name] + 1]_vars
  /\ [][cleanupAllReturned =>
          /\ modules' = <<>>
          /\ Len(cleanupResults') = Len(moduleArray)
          /\ \A i \in DOMAIN moduleArray :
               /\ cleanupResults'[i].name = moduleArray[i].name
               /\ cleanupResults'[i].success = (moduleArray[i].module = "resolves")
               /\ cleanupCalls[moduleArray[i].name] = 1
               /\ ~cleanupPromises[i].timerArmed]_vars
  /\ [](cleanupPhase = "returned" => Len(cleanupResults) = Len(moduleArray))

\* three modules were registered; the cleanup of the first threw and that of
\* the second timed out, the third was cleaned all the same, and the registry
\* is empty
C20_Witness ==
  /\ cleanupPhase = "returned"
  /\ modules = <<>>
  /\ Len(moduleArray) = 3
  /\ moduleArray[1].module = "throws"
  /\ moduleArray[2].module = "hangs"
  /\ moduleArray[3].module = "resolves"
  /\ cleanupResults =
       <<[name |-> moduleArray[1].name, success |-> FALSE, error |-> "thrown"],
         [name |-> moduleArray[2].name, success |-> FALSE, error |-> "Cleanup timeout"],
         [name |-> moduleArray[3].name, success |-> TRUE, error |-> "none"]>>
  /\ \A n \in ModuleNames : cleanupCalls[n] = 1

\* every promise of the running cleanupAll that is not settled belongs to a
\* cleanup() that was started
allStarted ==
  /\ Len(cleanupPromises) = Len(moduleArray)
  /\ \A i \in DOMAIN moduleArray : cleanupCalls[moduleArray[i].name] >= 1

\* C21: a cleanupAll that was called returns; when it awaits, cleanup() of
\* every module has been started, whatever the modules before it do; a
\* module whose promise does not settle is reported with success = false and
\* the error 'Cleanup timeout', and no other module is reported so.
C21_CleanupAllTerminates ==
  /\ (cleanupPhase = "running") ~> (cleanupPhase = "returned")
  /\ [](cleanupPhase = "running" => allStarted)
  /\ [](cleanupPhase = "returned" =>
          \A i \in DOMAIN moduleArray :
            /\ (moduleArray[i].module = "hangs") =
                 (cleanupResults[i].error = "Cleanup timeout")
            /\ moduleArray[i].module = "hangs" => ~cleanupResults[i].success)

\* a module that hangs was started first, the two after it were cleaned, and
\* cleanupAll returned with the timeout reported for the first
C21_Witness ==
  /\ cleanupPhase = "returned"
  /\ Len(moduleArray) = 3
  /\ moduleArray[1].module = "hangs"
  /\ cleanupResults[1] = [name |-> moduleArray[1].name, success |-> FALSE,
                          error |-> "Cleanup timeout"]
  /\ cleanupResults[2].success
  /\ cleanupResults[3].success

\* the place of the module named n in the registry
placeOf(entries, n) == CHOOSE i \in DOMAIN entries : entries[i].name = n

cleanupCalled == elrCall'.op = "cleanup"

\* how often removeEventListener was called for the listener
removeCallsOf(r, listenerId) ==
  Cardinality({i \in DOMAIN r.removeCalls : r.removeCalls[i] = listenerId})

secondRemove ==
  /\ elrCall'.op = "remove"
  /\ \E i \in DOMAIN elr.removeCalls : elr.removeCalls[i] = elrCall'.id

\* C24: a second remove(listenerId) of a listener already removed returns
\* false, calls removeEventListener no more and changes neither activeCount
\* nor totalRemoved.
C24_SecondRemoveChangesNothing ==
  [][secondRemove =>
       /\ elr'.returned = "false"
       /\ elr'.removeCalls = elr.removeCalls
       /\ elr'.dom = elr.dom
       /\ elr'.listenerStats = elr.listenerStats
       /\ elr'.listeners = elr.listeners]_vars

\* a removed listener was removed again while another one is still active
C24_Witness ==
  /\ elrCall.op = "remove"
  /\ elr.returned = "false"
  /\ \E i \in DOMAIN elr.removeCalls : elr.removeCalls[i] = elrCall.id
  /\ elr.listenerStats.activeCount = 1
  /\ elr.listenerStats.totalRemoved = 1

\* the place of a phase on the way INITIALIZING, ACTIVE, CLEANUP_PENDING, CLEANED
phasePlace(phase) ==
  CASE phase = "initializing" -> 1
    [] phase = "active" -> 2
    [] phase = "cleanup_pending" -> 3
    [] phase = "cleaned" -> 4
    [] OTHER -> 0

\* C25: the lifecycle phase of a cleanable module changes only forward along
\* INITIALIZING, ACTIVE, CLEANUP_PENDING, CLEANED, or into ERROR; nothing leaves
\* CLEANED, and ERROR is left only for the CLEANUP_PENDING of a cleanup retry.
C25_PhaseFollowsLifecycle ==
  \A change \in elr.phaseChanges :
    \/ change[2] = "error"
    \/ change[1] = "error" /\ change[2] = "cleanup_pending"
    \/ /\ change[1] \notin {"error", "cleaned"}
       /\ phasePlace(change[1]) < phasePlace(change[2])

\* C26: whatever the calls of debouncedStorageSet and their keys, the map of
\* pending timeouts never holds more than MAX_ENTRIES entries.
C26_TimeoutsMapBounded == Len(debounce.timeouts) <= MAX_ENTRIES

\* the map is full after the oldest entry was evicted to make room: the timer
\* of a call was cleared though no later call has its key
C26_Witness ==
  /\ Len(debounce.timeouts) = MAX_ENTRIES
  /\ \E i \in DOMAIN debounce.calls :
       /\ debounce.calls[i].timer = "cleared"
       /\ \A j \in DOMAIN debounce.calls :
            j > i => debounce.calls[j].key # debounce.calls[i].key

\* C27: every promise debouncedStorageSet returned is resolved in the end,
\* given that timers fire and storage calls return.
C27_EveryPromiseResolves ==
  \A i \in 1..MaxSets :
    (Len(debounce.calls) >= i)
      ~> (Len(debounce.calls) >= i /\ debounce.calls[i].promise = "resolved")

\* how many delimiters the key holds
RECURSIVE delimiters(_)
delimiters(key) ==
  IF key = <<>> THEN 0 ELSE delimiters(Tail(key)) + IF Head(key) = "->" THEN 1 ELSE 0

\* the key without its slashes
withoutSlashes(key) ==
  LET noSlash(t) == t # "/"
  IN  SelectSeq(key, noSlash)

\* the persisted entries a synced key may stand for: all required fields, one
\* delimiter, and the key itself up to trailing slashes
keptFor(key) ==
  {e \in persistedEntries :
     /\ e.expiresAt # "missing"
     /\ delimiters(e.key) = 1
     /\ withoutSlashes(e.key) = key}

\* C28: after syncFromStorage every key of the cache is two origins around one
\* delimiter, without trailing slashes, and stands for a persisted entry that has
\* its required fields and one delimiter; every well-formed persisted entry is
\* in the cache under its normalized key; and the cache holds no more keys than
\* there are such entries.
C28_SyncKeepsOnlyValidEntries ==
  permissionCache.synced =>
    /\ \A key \in permissionCache.keys : key = <<"a", "->", "a">> /\ keptFor(key) # {}
    /\ \A e \in persistedEntries :
         (e.expiresAt # "missing"
            /\ e.key \in {<<"a", "->", "a">>, <<"a", "/", "->", "a">>,
                          <<"a", "->", "a", "/">>})
           => withoutSlashes(e.key) \in permissionCache.keys
    /\ Cardinality(permissionCache.keys)
         <= Cardinality({e \in persistedEntries :
                           e.expiresAt # "missing" /\ delimiters(e.key) = 1})

\* a snapshot with a key to normalize and a key without the delimiter was
\* synced: one entry is kept, under the normalized key
C28_Witness ==
  /\ permissionCache.synced
  /\ persistedEntries =
       {[key |-> <<"a", "/", "->", "a">>, expiresAt |-> "future"],
        [key |-> <<"a", "=>", "a">>, expiresAt |-> "future"]}
  /\ permissionCache.keys = {<<"a", "->", "a">>}

\* C29: safeCheckNavigationPermission never rejects and never throws into the
\* page: whatever the primitive and whichever attempts fail, its promise is not
\* rejected, no error escapes the override, and a check that made its last
\* attempt and was rejected there has resolved to a boolean by the fallback.
C29_CheckNeverRejects ==
  \A i \in DOMAIN calls :
    /\ ~calls[i].rejected
    /\ ~calls[i].unhandled
    /\ calls[i].attempt <= MAX_PERMISSION_RETRIES
    /\ Len(calls[i].errors) = MAX_PERMISSION_RETRIES + 1 => calls[i].settledBy = "error"

\* C30: the original primitive of an intercepted cross-origin call is invoked
\* at most once, and only when the permission check has resolved to allowed;
\* a check that was denied, timed out or failed never navigates.
C30_NavigatesOnlyWhenAllowed ==
  \A i \in DOMAIN calls :
    /\ calls[i].origCalls <= 1
    /\ calls[i].origCalls = 1 =>
         /\ calls[i].result
         /\ calls[i].state = "allowed"
         /\ calls[i].settledBy \in {"response", "error"}

\* the promise of the current attempt of the check c is settled
attemptOver(c) == c.settledBy # "none" \/ c.state = "retryDelay"

\* C31: a permission check settles once, by the response, the timeout or the
\* error that comes first; from then on its timer is cleared and its listener
\* removed, and nothing that comes later (a matching response after the
\* timeout, the timer after a response) changes it or calls the original
\* primitive.
C31_CheckSettlesOnce ==
  /\ [](\A i \in DOMAIN calls :
          attemptOver(calls[i]) =>
            /\ calls[i].hasResolved
            /\ ~calls[i].timerArmed
            /\ ~calls[i].listening
            /\ calls[i].origCalls <= 1)
  /\ [][\A i \in DOMAIN calls :
          calls[i].settledBy # "none" => calls'[i] = calls[i]]_vars

\* a check has timed out and a response that allows it, with its messageId
\* and from the window, is about to be dispatched
C31_Witness ==
  \E i \in DOMAIN calls :
    /\ calls[i].settledBy = "timeout"
    /\ msgQueue # <<>>
    /\ Head(msgQueue) = ResponseMsg(calls[i].messageId, TRUE)
\* C32: when cleanupAll has resolved, no per-module timeout timer that it
\* created is still armed, whether the module's cleanup resolved, rejected,
\* threw synchronously or was cut off by the timeout; every settled race has
\* cleared its timer and no timer fires after teardown
C32_NoTimerSurvivesCleanupAll ==
  /\ [](\A i \in DOMAIN cleanupPromises :
          (cleanupPromises[i].settled \/ cleanupPhase = "returned")
            => ~cleanupPromises[i].timerArmed)
  /\ [][cleanupPhase = "returned" => cleanupPromises' = cleanupPromises]_vars

C32_Witness ==
  /\ cleanupPhase = "returned"
  /\ \E i, j, k \in DOMAIN cleanupPromises :
       /\ moduleArray[i].module = "resolves"
       /\ moduleArray[j].module = "rejects"
       /\ moduleArray[k].module = "throws"

\* C34: an entry that register() put into the registry leaves it only by
\* unregister(name) or after cleanupAll has invoked its cleanup(): no step
\* drops an entry that was not part of the cleanupAll snapshot, neither a
\* second register under the same name nor the clear() at the end of
\* cleanupAll
C34_NoModuleLeavesWithoutCleanup ==
  [][\A i \in DOMAIN modules :
       LET e == modules[i] IN
         (~\E j \in DOMAIN modules' : modules'[j] = e)
           => \/ /\ ~\E j \in DOMAIN modules' : modules'[j].name = e.name
                 /\ cleanupPhase' = cleanupPhase
              \/ /\ cleanupPhase # "idle"
                 /\ \E j \in DOMAIN moduleArray : moduleArray[j] = e]_vars

\* the strategies of the latest execute whose condition holds, in the order
\* of the priority of the operation
applicableSorted(config) ==
  sortStrategies(config.priority,
                 SelectSeq(config.fallbackStrategies, LAMBDA st : st.applies))

\* C33: when the primary function of execute fails (throws, rejects or times
\* out) and some registered strategy whose condition holds completes
\* successfully, the promise resolves with the result of the first such
\* strategy in sorted order; it rejects with the primary error only when no
\* applicable strategy succeeds
C33_FirstSucceedingFallbackWins ==
  executed.primary \in {"throws", "rejects", "hangs"} =>
    LET sorted == applicableSorted(operationConfig[executed.operationId])
        succeeding == {i \in DOMAIN sorted : sorted[i].outcome = "succeeds"}
    IN IF succeeding = {}
       THEN executed.status = "rejected" /\ executed.value = "primaryError"
       ELSE /\ executed.status = "resolved"
            /\ \E i \in succeeding :
                 /\ \A j \in succeeding : i <= j
                 /\ executed.value = sorted[i].type

\* C35: after any sequence of register, remove, removeByModule,
\* removeByElement, removeByCategory, periodic cleanup and cleanup(), also
\* with removals that fail because removeEventListener throws, activeCount is
\* the size of the listeners map and totalRegistered - totalRemoved is
\* activeCount
C35_StatsMatchListeners ==
  /\ elr.listenerStats.activeCount = Len(elr.listeners)
  /\ elr.listenerStats.totalRegistered - elr.listenerStats.totalRemoved
       = elr.listenerStats.activeCount

\* a removal has failed and left its listener tracked and orphaned, after
\* another listener was removed
C35_Witness ==
  /\ elr.returned = "false"
  /\ elr.orphanedListeners # {}
  /\ \E i \in DOMAIN elr.listeners : elr.listeners[i].id \in elr.orphanedListeners
  /\ elr.listenerStats.totalRemoved > 0

\* C36: whatever the sequence of activate(), deactivate() and cleanup() on a
\* ScriptAnalyzer, at most one MutationObserver is connected at any time,
\* and after a deactivate() or cleanup() none is connected
C36_AtMostOneObserver ==
  /\ [](Cardinality(analyzer.connected) <= 1)
  /\ [][(analyzer' = deactivate(analyzer) \/ analyzer' = cleanup_analyzer(analyzer))
          => analyzer'.connected = {}]_vars

\* C37: isDomainWhitelisted(d) returns whether some entry of the current
\* whitelist matches d: the one-entry cache never holds a result that the
\* current whitelist does not give, whatever the order of the settings load,
\* storageChanged, whitelistUpdated, executeRules, link clicks and checks
C37_WhitelistCacheNeverStale ==
  whitelistCache.result # "null" =>
    (whitelistCache.result = "true") = whitelistSome(whitelist, whitelistCache.domain)

\* the message at the head of the queue is a check of the interceptor for a
\* target of another origin that the whitelist does not match, with the
\* guard enabled
uncoveredCheck ==
  /\ msgQueue # <<>>
  /\ Head(msgQueue).type = "NAV_GUARDIAN_CHECK"
  /\ Head(msgQueue).source = "window"
  /\ navigationGuardEnabled
  /\ isCrossOrigin_injected(Head(msgQueue).url)
  /\ ~whitelistSome(whitelist, Head(msgQueue).url.host)

\* C38: the interceptor and the Guardian tell cross-origin targets apart in
\* the same way, so that no check for a cross-origin target the whitelist
\* does not match, one that differs from the page in its scheme only
\* included, is answered "allowed" at once, without a modal
C38_NoAutoAllowAcrossOrigins ==
  [][uncoveredCheck =>
       msgQueue' # Append(Tail(msgQueue), ResponseMsg(Head(msgQueue).messageId, TRUE))]_vars

\* C39: allowedCount is incremented for a check only if the interceptor then
\* performs the navigation: whenever the modal of a check has counted an
\* Allow and the check is settled, the original primitive was called for it,
\* however the Allow and the timeout of the interceptor interleave
C39_CountedAllowNavigates ==
  \A i \in DOMAIN modals, j \in DOMAIN calls :
    /\ modals[i].cb = Callback("msg", calls[j].messageId)
    /\ modals[i].incAllowed > 0
    /\ calls[j].hasResolved
    => calls[j].origCalls >= 1

\* C40: when two concurrent updateWhitelist requests, 'add a.c' and
\* 'add b.c', have both been answered, the whitelist in storage holds both
\* domains, and it never holds a domain twice, however the reads and writes
\* of the two requests interleave
C40_BothAddsStored ==
  /\ \A i, j \in DOMAIN storedWhitelist :
       storedWhitelist[i] = storedWhitelist[j] => i = j
  /\ (/\ \A r \in UpdateRequests :
           updates[r].pc = "done" /\ updates[r].whitelistAction = "add"
      /\ updates[1].domain # updates[2].domain)
     => \A r \in UpdateRequests : includes(storedWhitelist, updates[r].domain)

=============================================================================
